---- MODULE Spec2Model ----
(***************************************************************************)
(* A model of mcpgen (lyeskara/testmcp): the OpenAPI -> MCP tool generator. *)
(*                                                                         *)
(*  - converter.applySchema, convertParameters, convertRequestBody         *)
(*        (src/converter/requestArgs.go): the normalizer and the Args      *)
(*        builder.                                                         *)
(*  - converter.GenerateJSONSchemaDraft7 / schemaToDraft7Map               *)
(*        (src/converter/toolSchema.go): the JSON Schema Draft-7 emitter.  *)
(*  - converter.createResponseTemplates, assignSuffixes                    *)
(*        (src/unnamed/part_002): the response-template renderer.          *)
(*  - generator.GenerateToolFiles, GenerateServerFile, GenerateHTTPClient  *)
(*        and writeFileContent (src/generator/tools.go, server.go,         *)
(*        src/unnamed/part_003): the code emitter with preservation and    *)
(*        the file writer.                                                 *)
(*                                                                         *)
(* The specifications share the variables:                                 *)
(*    SpecNormalize  applySchema on one schema, then schemaToDraft7Map     *)
(*    SpecArgs       the Args of one operation and its input schema        *)
(*    SpecSchema     the emitter applied twice to a list of Args           *)
(*    SpecResponses  createResponseTemplates on one operation              *)
(*    Spec           generation runs of the go/ast emitter over an output  *)
(*                   directory that a user edits between runs              *)
(*    SpecRegex      the same runs of the regexp emitter                   *)
(*    SpecRegenerate the go/ast emitter for one tool over files whose      *)
(*                   imports and handler signature were edited by hand     *)
(*    SpecMarkdown   PrependBody of one response template, as written by   *)
(*                   writeSchemaMarkdown and writeSchemaDetails            *)
(***************************************************************************)
EXTENDS Integers, Sequences, FiniteSets, TLC

VARIABLES
    args,       \* the []Arg handed to GenerateJSONSchemaDraft7
    schemaOut,  \* the results of the emitter's runs so far, oldest first
    config,     \* the generator's inputs: MCPConfig.Tools, PackageName, the document
    dir,        \* the output directory: file path -> content, or Missing
    pc,         \* position of the generation run: "tools", "server", "done",
                \* or how it ended early: "failed", "panicked", "aborted"
    idx,        \* index into config.Tools of the tool the run emits next
    run,        \* number of the current generation run (1, 2, ...)
    writes,     \* the paths the current run has passed to os.WriteFile
    aborts,     \* the aborts by the host so far: where, and what was written
    startDir,   \* the directory as it was when the first run started
    edits,      \* how many handler bodies the user has rewritten
    edited,     \* file path -> the body a user put in since its emission, or NoEdit
    last,       \* what the last emitter step did: file, content before and after
    operation,  \* the OpenAPI input of the converter: a schema or an operation
    built       \* what the converter has made of it so far

schemaVars == <<args, schemaOut>>
genVars == <<config, dir, pc, idx, run, writes, aborts, startDir, edits, edited, last>>
convVars == <<operation, built>>
vars == <<args, schemaOut, config, dir, pc, idx, run, writes, aborts, startDir,
          edits, edited, last, operation, built>>

(***************************************************************************)
(* Bounds of the model.                                                    *)
(***************************************************************************)
MaxArgs == 2
MaxTools == 2
MaxRuns == 2
MaxAborts == 1
MaxEdits == 1

(***************************************************************************)
(* Helpers on sequences and maps.                                          *)
(***************************************************************************)
EmptyMap == [k \in {} |-> ""]

Range(s) == {s[i] : i \in DOMAIN s}

SeqsUpTo(S, n) == UNION {[1..k -> S] : k \in 0..n}

\* The orders in which a Go map with key set K can be ranged over.
Perms(K) == {p \in [1..Cardinality(K) -> K] : Range(p) = K}

(***************************************************************************)
(* The Schema IR (src/converter): metadata, types, the array and object    *)
(* validations and the composition keywords.  The string and number        *)
(* validations and format/enum/default/example/readOnly/writeOnly are      *)
(* copied through by both passes and are left out.  A nil *Schema is       *)
(* NilSchema, a nil *ArrayValidation NilArray, a nil *ObjectValidation     *)
(* NilObject.                                                              *)
(***************************************************************************)
NilSchema == [nil |-> TRUE]

NilArray == [nil |-> TRUE]

NilObject == [nil |-> TRUE]

MkArray(items) == [nil |-> FALSE, Items |-> items]

MkObject(properties, required, additionalProperties, disallow) ==
    [nil |-> FALSE, Properties |-> properties, Required |-> required,
     AdditionalProperties |-> additionalProperties,
     DisallowAdditionalProperties |-> disallow]

\* a nil *StringValidation and a nil *NumberValidation
NilString == [nil |-> TRUE]

NilNumber == [nil |-> TRUE]

MkSchema(title, desc, types, oneOf) ==
    [nil |-> FALSE, Title |-> title, Description |-> desc,
     Types |-> types, OneOf |-> oneOf, AnyOf |-> <<>>, AllOf |-> <<>>,
     Not |-> NilSchema, String |-> NilString, Number |-> NilNumber,
     Array |-> NilArray, Object |-> NilObject]

SPlain == MkSchema("", "", <<"object">>, <<>>)
STitle == MkSchema("Todo", "", <<"object">>, <<>>)
SBoth  == MkSchema("Todo", "A todo item", <<"string">>, <<>>)
SAny   == MkSchema("", "", <<>>, <<>>)
SUnion == MkSchema("", "", <<>>, <<STitle, SAny>>)
\* a schema whose oneOf holds a nil branch: lowering it is an error
SBad   == MkSchema("", "", <<>>, <<NilSchema>>)

JStr(s) == [str |-> s]
JArr(a) == [arr |-> a]

\* One result of schemaToDraft7Map or GenerateJSONSchemaDraft7.
Ok(m)    == [err |-> "", isNil |-> FALSE, map |-> m]
NilMap   == [err |-> "", isNil |-> TRUE, map |-> EmptyMap]
Fail(e)  == [err |-> e, isNil |-> TRUE, map |-> EmptyMap]

\* Index of the first element of a sequence of results that is an error or
\* nil map, 0 when there is none.
FirstBad(rs) ==
    IF \E i \in DOMAIN rs : rs[i].err # "" \/ rs[i].isNil
    THEN CHOOSE i \in DOMAIN rs :
            /\ rs[i].err # "" \/ rs[i].isNil
            /\ \A j \in 1..(i - 1) : rs[j].err = "" /\ ~rs[j].isNil
    ELSE 0

\* JSON false, as "additionalProperties": false
JBool(b) == [bool |-> b]

RECURSIVE schemaToDraft7Map(_)
schemaToDraft7Map(s) ==
    IF s = NilSchema THEN NilMap
    ELSE
      LET meta ==
            (IF s.Title # "" THEN "title" :> s.Title ELSE EmptyMap)
            @@ (IF s.Description # "" THEN "description" :> s.Description ELSE EmptyMap)
          Subs(L) == [i \in 1..Len(L) |-> schemaToDraft7Map(L[i])]
          \* the error of the loop over one composition keyword, "" if none
          CompErr(kw, L) ==
            LET subs == Subs(L)
                bad == FirstBad(subs)
            IN  IF bad = 0 THEN ""
                ELSE IF subs[bad].err # ""
                THEN "failed to convert " \o kw \o " sub-schema"
                ELSE kw \o " sub-schema resulted in a nil schema map"
          Comp(kw, L) ==
            IF Len(L) > 0
            THEN kw :> [i \in 1..Len(L) |-> Subs(L)[i].map]
            ELSE EmptyMap
          notMap == schemaToDraft7Map(s.Not)
          notErr ==
            IF s.Not = NilSchema THEN ""
            ELSE IF notMap.err # "" THEN "failed to convert not sub-schema"
            ELSE IF notMap.isNil THEN "not sub-schema resulted in a nil schema map"
            ELSE ""
          not == IF s.Not # NilSchema THEN "not" :> notMap.map ELSE EmptyMap
          type ==
            IF Len(s.Types) = 1 THEN "type" :> JStr(s.Types[1])
            ELSE IF Len(s.Types) > 1 THEN "type" :> JArr(s.Types)
            ELSE EmptyMap
          hasItems == s.Array # NilArray /\ s.Array.Items # NilSchema
          itemsMap == schemaToDraft7Map(s.Array.Items)
          itemsErr ==
            IF hasItems /\ itemsMap.err # ""
            THEN "failed to convert array items schema" ELSE ""
          items ==
            IF hasItems /\ ~itemsMap.isNil THEN "items" :> itemsMap.map
            ELSE EmptyMap
          obj == s.Object
          props == IF obj = NilObject THEN EmptyMap ELSE obj.Properties
          propMaps == [n \in DOMAIN props |-> schemaToDraft7Map(props[n])]
          \* the message names the property; with several failing ones the
          \* one the range over the map meets first
          propErr ==
            IF \E n \in DOMAIN props : propMaps[n].err # ""
            THEN "failed to convert property" ELSE ""
          kept == {n \in DOMAIN props : ~propMaps[n].isNil}
          properties ==
            IF kept # {} THEN "properties" :> [n \in kept |-> propMaps[n].map]
            ELSE EmptyMap
          required ==
            IF obj # NilObject /\ Len(obj.Required) > 0
            THEN "required" :> obj.Required ELSE EmptyMap
          addlMap == schemaToDraft7Map(obj.AdditionalProperties)
          hasAddl ==
            /\ obj # NilObject
            /\ ~obj.DisallowAdditionalProperties
            /\ obj.AdditionalProperties # NilSchema
          addlErr ==
            IF hasAddl /\ addlMap.err # ""
            THEN "failed to convert additionalProperties schema" ELSE ""
          additional ==
            IF obj = NilObject THEN EmptyMap
            ELSE IF obj.DisallowAdditionalProperties
            THEN "additionalProperties" :> JBool(FALSE)
            ELSE IF obj.AdditionalProperties # NilSchema
            THEN "additionalProperties" :>
                    (IF addlMap.isNil THEN EmptyMap ELSE addlMap.map)
            ELSE EmptyMap
          errs == <<CompErr("oneOf", s.OneOf), CompErr("anyOf", s.AnyOf),
                    CompErr("allOf", s.AllOf), notErr, itemsErr, propErr,
                    addlErr>>
      IN  IF \E i \in DOMAIN errs : errs[i] # ""
          THEN Fail(errs[CHOOSE i \in DOMAIN errs :
                            /\ errs[i] # ""
                            /\ \A j \in 1..(i - 1) : errs[j] = ""])
          ELSE Ok(meta @@ Comp("oneOf", s.OneOf) @@ Comp("anyOf", s.AnyOf)
                  @@ Comp("allOf", s.AllOf) @@ not @@ type @@ items
                  @@ properties @@ required @@ additional)

(***************************************************************************)
(* Arg (src/converter): one input slot of a tool.  ContentTypes is a Go    *)
(* map from media type to *Schema; a non-body Arg leaves it empty and a    *)
(* body Arg leaves Schema nil.                                             *)
(***************************************************************************)
MkArg(name, source, required, deprecated, schema, contentTypes) ==
    [Name |-> name, Source |-> source, Required |-> required,
     Deprecated |-> deprecated, Schema |-> schema, ContentTypes |-> contentTypes]

ContentTypeNames == {"application/json", "application/xml"}

\* TagBranch with the two tests exchanged: the title is looked at first.
TagBranch_TitleFirst(contentType, branchSchema) ==
    IF "title" \in DOMAIN branchSchema
    THEN [branchSchema EXCEPT !["title"] = "[" \o contentType \o "] " \o @]
    ELSE IF "description" \in DOMAIN branchSchema
    THEN [branchSchema EXCEPT
            !["description"] = "[" \o contentType \o "] " \o @]
    ELSE ("title" :> ("Schema for " \o contentType)) @@ branchSchema

\* The tagging rewrite of one oneOf branch (toolSchema.go:46-52).
TagBranch(contentType, branchSchema) ==
    IF "description" \in DOMAIN branchSchema
    THEN [branchSchema EXCEPT
            !["description"] = "[" \o contentType \o "] " \o @]
    ELSE IF "title" \in DOMAIN branchSchema
    THEN [branchSchema EXCEPT !["title"] = "[" \o contentType \o "] " \o @]
    ELSE ("title" :> ("Schema for " \o contentType)) @@ branchSchema

\* The branches appended to oneOfDraft7 while ranging over the content
\* types in the order `order`, from position k on: nil maps are left out.
RECURSIVE OneOfBranches(_, _, _)
OneOfBranches(contentTypes, order, k) ==
    IF k > Len(order) THEN <<>>
    ELSE LET r == schemaToDraft7Map(contentTypes[order[k]])
         IN  (IF r.isNil THEN <<>> ELSE <<TagBranch(order[k], r.map)>>)
             \o OneOfBranches(contentTypes, order, k + 1)

\* AppendRequired without the test of arg.Required.
AppendRequired_IgnoresFlag(arg, acc) ==
    [acc EXCEPT !.required = Append(@, arg.Name)]

\* handled_arg_schema: (toolSchema.go:87-91)
AppendRequired(arg, acc) ==
    IF arg.Required
    THEN [acc EXCEPT !.required = Append(@, arg.Name)]
    ELSE acc

\* CommonProperty without the `continue` on a nil schema map: the name goes
\* on to the required list.
CommonProperty_NoContinue(arg, r, acc) ==
    IF arg.Name \notin DOMAIN acc.properties
    THEN IF r.isNil
         THEN AppendRequired(arg, acc)
         ELSE AppendRequired(arg,
                [acc EXCEPT !.properties = (arg.Name :> r.map) @@ @])
    ELSE AppendRequired(arg, acc)

\* CommonProperty without the test for a nil schema map: the nil map is
\* stored as the property.
CommonProperty_NoNilCheck(arg, r, acc) ==
    IF arg.Name \notin DOMAIN acc.properties
    THEN AppendRequired(arg,
           [acc EXCEPT !.properties = (arg.Name :> r.map) @@ @])
    ELSE AppendRequired(arg, acc)

\* Common property handling for non-body args or a single content type
\* body (toolSchema.go:79-91).
CommonProperty(arg, r, acc) ==
    IF arg.Name \notin DOMAIN acc.properties
    THEN IF r.isNil
         THEN acc
         ELSE AppendRequired(arg,
                [acc EXCEPT !.properties = (arg.Name :> r.map) @@ @])
    ELSE AppendRequired(arg, acc)

\* One iteration of the loop over args (toolSchema.go:18-92).  `order` is
\* the order in which this run ranges over arg.ContentTypes.
ArgStep(arg, order, acc) ==
    IF arg.Deprecated THEN acc
    ELSE IF arg.Source = "body"
    THEN IF Len(order) = 0 THEN acc
         ELSE IF Len(order) = 1
         THEN LET r == schemaToDraft7Map(arg.ContentTypes[order[1]])
              IN  IF r.err # ""
                  THEN [acc EXCEPT !.err = "failed to convert body schema"]
                  ELSE CommonProperty(arg, r, acc)
         ELSE LET rs == [k \in 1..Len(order) |->
                            schemaToDraft7Map(arg.ContentTypes[order[k]])]
                  failing == {k \in 1..Len(order) : rs[k].err # ""}
                  first == CHOOSE k \in failing : \A j \in failing : k <= j
                  oneOfDraft7 == OneOfBranches(arg.ContentTypes, order, 1)
              IN  IF failing # {}
                  THEN [acc EXCEPT !.err =
                          "failed to convert body schema branch for content type '"
                          \o order[first] \o "'"]
                  ELSE IF Len(oneOfDraft7) > 0
                  THEN AppendRequired(arg,
                         [acc EXCEPT !.properties =
                            (arg.Name :> ("oneOf" :> oneOfDraft7)) @@ @])
                  ELSE acc
    ELSE IF arg.Schema = NilSchema THEN acc
         ELSE LET r == schemaToDraft7Map(arg.Schema)
              IN  IF r.err # ""
                  THEN [acc EXCEPT !.err = "failed to convert schema for arg"]
                  ELSE CommonProperty(arg, r, acc)

RECURSIVE ArgLoop(_, _, _, _)
ArgLoop(as, orders, i, acc) ==
    IF i > Len(as) \/ acc.err # "" THEN acc
    ELSE ArgLoop(as, orders, i + 1, ArgStep(as[i], orders[i], acc))

\* GenerateJSONSchemaDraft7(args): orders[i] is the order in which the run
\* ranges over args[i].ContentTypes.  json.MarshalIndent writes the keys of
\* a map sorted, so the returned string is a function of the root map; the
\* model returns the map.
GenerateJSONSchemaDraft7(as, orders) ==
    LET acc == ArgLoop(as, orders, 1,
                   [err |-> "", properties |-> EmptyMap, required |-> <<>>])
        rootSchema ==
            ("type" :> "object")
            @@ (IF DOMAIN acc.properties # {}
                THEN "properties" :> acc.properties ELSE EmptyMap)
            @@ (IF Len(acc.required) > 0
                THEN "required" :> acc.required ELSE EmptyMap)
    IN  IF acc.err # "" THEN Fail(acc.err) ELSE Ok(rootSchema)

\* The orders a run can range over every ContentTypes map of `as` in.
MapOrders(as) ==
    {o \in [DOMAIN as -> UNION {Perms(K) : K \in SUBSET ContentTypeNames}] :
        \A i \in DOMAIN as : o[i] \in Perms(DOMAIN as[i].ContentTypes)}

(***************************************************************************)
(* The Args the emitter is applied to.                                     *)
(***************************************************************************)
ParamArgs ==
    {MkArg(n, "query", r, d, s, EmptyMap) :
        n \in {"id", "body"}, r \in BOOLEAN, d \in BOOLEAN,
        s \in {NilSchema, STitle, SUnion}}
    \cup {MkArg("id", "query", TRUE, FALSE, SBad, EmptyMap)}

BodyContentTypes ==
    {m \in UNION {[K -> {NilSchema, SPlain, STitle, SBoth, SBad}] :
                     K \in SUBSET ContentTypeNames} :
        /\ "application/json" \in DOMAIN m => m["application/json"] # STitle
        /\ "application/xml" \in DOMAIN m =>
              m["application/xml"] \notin {SPlain, SBad}}

BodyArgs ==
    {MkArg("body", "body", r, FALSE, NilSchema, m) :
        r \in BOOLEAN, m \in BodyContentTypes}

ArgPool == ParamArgs \cup BodyArgs

(***************************************************************************)
(* The code emitter (src/generator).                                       *)
(*                                                                         *)
(* File contents.  The bytes of a Go source file are modelled by what the  *)
(* parser reads in them: the package clause, the import specs in order,    *)
(* the constants, and the function declarations in order, each with its    *)
(* body as the tokens from its opening to its closing brace.  The tokens   *)
(* "ws" and "\n" are white space that gofmt would not have written.  Any   *)
(* other content (an empty file, the external client generator's output,   *)
(* a file that is no Go source) is [bytes |-> tokens].                     *)
(***************************************************************************)
Missing == [missing |-> TRUE]

Raw(tokens) == [bytes |-> tokens]

IsGoFile(c) == "decls" \in DOMAIN c

\* a file with these bytes that the generator's process may not read, and
\* may or may not write (its permission bits, a path that is a directory)
NoRead(content, writable) == [noread |-> content, writable |-> writable]

IsNoRead(f) == "noread" \in DOMAIN f

\* the bytes in a file that exists
Bytes(f) == IF IsNoRead(f) THEN f.noread ELSE f

\* os.Stat(path) returns no error
Stat(d, path) == d[path] # Missing

\* os.ReadFile(path)
ReadFile(d, path) ==
    [err |-> d[path] = Missing \/ IsNoRead(d[path]), content |-> d[path]]

\* os.WriteFile(path, data, 0644): creates the file, or replaces the bytes
\* of the file there and leaves its permissions
WriteFile(d, path, data) ==
    IF IsNoRead(d[path])
    THEN IF d[path].writable
         THEN [err |-> FALSE, dir |-> [d EXCEPT ![path] = NoRead(data, TRUE)]]
         ELSE [err |-> TRUE, dir |-> d]
    ELSE [err |-> FALSE, dir |-> [d EXCEPT ![path] = data]]

\* an operation identifier: its first byte and the rest ("" for len(s) = 0)
MkName(first, rest) == [first |-> first, rest |-> rest]

NameString(n) == n.first \o n.rest

\* strings.ToUpper on one byte, over the letters the names here start with
ToUpper(c) ==
    CASE c = "g" -> "G"
      [] c = "l" -> "L"
      [] c = "e" -> "E"
      [] OTHER -> c

capitalizeFirstLetter(s) ==
    IF s.first = "" /\ s.rest = "" THEN s
    ELSE [s EXCEPT !.first = ToUpper(@)]

\* import specs: `alias "path"`, alias "" for none
Import(alias, path) == [alias |-> alias, path |-> path]

requiredImports ==
    <<Import("", "context"), Import("", "fmt"),
      Import("", "github.com/mark3labs/mcp-go/mcp")>>

\* the place of an import path in the lexicographic order of the paths used
PathRank(path) ==
    CASE path = "context" -> 1
      [] path = "fmt" -> 2
      [] path = "github.com/mark3labs/mcp-go/mcp" -> 3
      [] path = "os" -> 4
      [] OTHER -> 5

Param(name, type) == [name |-> name, type |-> type]

\* A function declaration.  results = <<>> with hasResults = FALSE is a
\* function without result list (fn.Type.Results == nil).
FuncDecl(name, recv, params, hasResults, results, body) ==
    [name |-> name, recv |-> recv, params |-> params,
     hasResults |-> hasResults, results |-> results, body |-> body]

GoFile(pkg, imports, consts, decls) ==
    [pkg |-> pkg, imports |-> imports, consts |-> consts, decls |-> decls]

IsSpace(t) == t \in {"ws", "\n"}

\* strings.HasSuffix(body, "\n")
EndsWithNewline(b) == Len(b) > 0 /\ b[Len(b)] = "\n"

\* the tokens of b without the white space after its last other token
RECURSIVE TrimRight(_)
TrimRight(b) ==
    IF Len(b) > 0 /\ IsSpace(b[Len(b)]) THEN TrimRight(SubSeq(b, 1, Len(b) - 1))
    ELSE b

RECURSIVE TrimLeft(_)
TrimLeft(b) ==
    IF Len(b) > 0 /\ IsSpace(b[1]) THEN TrimLeft(Tail(b)) ELSE b

\* strings.TrimSpace
TrimSpace(b) == TrimLeft(TrimRight(b))

\* nesting depth of braces after the first k tokens of b
Depth(b, k) ==
    Cardinality({i \in 1..k : b[i] = "{"}) - Cardinality({i \in 1..k : b[i] = "}"})

\* b is a block the Go parser accepts as a function body: it opens with a
\* brace that its last token closes, and holds no token that cannot stand
\* in a block (an unescaped quote, the start of another declaration)
BodyParses(b) ==
    LET code == TrimRight(b)
    IN  /\ Len(code) >= 2
        /\ code[1] = "{"
        /\ Depth(code, Len(code)) = 0
        /\ \A k \in 1..(Len(code) - 1) : Depth(code, k) > 0
        /\ \A k \in DOMAIN code : code[k] \notin {"\"", "func"}

\* parser.ParseFile(..., parser.ParseComments) succeeds
\* (a declaration without body, fn.Body == nil, has body <<>>)
Parses(c) ==
    /\ IsGoFile(c)
    /\ \A i \in DOMAIN c.decls : c.decls[i].body = <<>> \/ BodyParses(c.decls[i].body)

\* parser.ParseFile(..., parser.ImportsOnly) succeeds: it stops after the
\* import declarations
ParsesImports(c) == IsGoFile(c)

(***************************************************************************)
(* go/format.Source: fails on a file that does not parse; otherwise sorts  *)
(* the import specs, drops repeated ones, and rewrites the white space.    *)
(***************************************************************************)
ImportKey(spec) == 2 * PathRank(spec.path) + (IF spec.alias = "" THEN 0 ELSE 1)

RECURSIVE SortSpecs(_)
SortSpecs(S) ==
    IF S = {} THEN <<>>
    ELSE LET m == CHOOSE x \in S : \A y \in S : ImportKey(x) <= ImportKey(y)
         IN  <<m>> \o SortSpecs(S \ {m})

SortImports(imports) == SortSpecs(Range(imports))

FormatBody(b) == SelectSeq(b, LAMBDA t : ~IsSpace(t))

FormatSource(c) ==
    IF ~Parses(c) THEN [err |-> TRUE, file |-> c]
    ELSE [err |-> FALSE,
          file |-> [c EXCEPT !.imports = SortImports(@),
                             !.decls = [i \in DOMAIN @ |->
                                          [@[i] EXCEPT !.body = FormatBody(@)]]]]

(***************************************************************************)
(* Tools and the tool template (src/unnamed/part_004).                     *)
(***************************************************************************)
\* Responses is read by the go/ast build, ResponseTemplate by the regexp build
MkTool(name, description, rawInputSchema, responses) ==
    [Name |-> name, Description |-> description,
     RawInputSchema |-> rawInputSchema, Responses |-> responses,
     ResponseTemplate |-> [PrependBody |-> "# API Response Information"]]

HandlerParams ==
    <<Param("ctx", "context.Context"), Param("request", "mcp.CallToolRequest")>>

HandlerResults == <<"*mcp.CallToolResult", "error">>

\* the data GenerateToolFiles hands to the template (go/ast build)
ToolTemplateData(tool) ==
    LET capitalizedName == NameString(capitalizeFirstLetter(tool.Name))
    IN  [ToolNameOriginal |-> capitalizedName,
         ToolNameGo |-> capitalizedName,
         ToolHandlerName |-> capitalizedName \o "Handler",
         ToolDescription |-> tool.Description,
         RawInputSchema |-> tool.RawInputSchema,
         ResponseTemplate |-> tool.Responses,
         InputSchemaConst |-> NameString(tool.Name) \o "InputSchema",
         ResponseTemplateConst |-> NameString(tool.Name) \o "ResponseTemplate"]

\* the body the template gives the handler
DefaultBody(data) == <<"{", "not implemented: " \o data.ToolNameOriginal, "}">>

\* the declarations the template renders: the factory, then the handler
TemplateDecls(data) ==
    <<FuncDecl("New" \o data.ToolNameOriginal \o "MCPTool", FALSE, <<>>,
               TRUE, <<"mcp.Tool">>,
               <<"{", "mcp.NewToolWithRawSchema", data.ToolNameOriginal>>
               \o data.ToolDescription
               \o <<data.InputSchemaConst, "}">>),
      FuncDecl(data.ToolHandlerName, FALSE, HandlerParams, TRUE,
               HandlerResults, DefaultBody(data))>>

\* tmpl.Execute: the constants and the declarations the template renders
ExecuteToolTemplate(data) ==
    [consts |->
        <<[name |-> data.InputSchemaConst, value |-> data.RawInputSchema]>>
        \o [i \in DOMAIN data.ResponseTemplate |->
              [name |-> data.ToolNameOriginal \o "ResponseTemplate_"
                          \o data.ResponseTemplate[i].Suffix,
               value |-> data.ResponseTemplate[i].PrependBody]],
     decls |-> TemplateDecls(data)]

(***************************************************************************)
(* Preservation, go/ast build (src/generator/tools.go:134-227).            *)
(***************************************************************************)
extractImports(fileContent) ==
    IF ~ParsesImports(fileContent) THEN <<>> ELSE fileContent.imports

\* what extractHandlerImplementation returns: a body ("" is <<>>), or the
\* nil dereference of fn.Type.Results
Extracted(body) == [panic |-> FALSE, body |-> body]

ExtractPanic == [panic |-> TRUE, body |-> <<>>]

RECURSIVE ExtractFrom(_, _, _)
ExtractFrom(decls, handlerName, i) ==
    IF i > Len(decls) THEN Extracted(<<>>)
    ELSE LET fn == decls[i]
             next == ExtractFrom(decls, handlerName, i + 1)
         IN  IF fn.name # handlerName THEN next
             ELSE IF Len(fn.params) # 2 THEN next
             ELSE IF ~fn.hasResults THEN ExtractPanic
             ELSE IF Len(fn.results) # 2 THEN next
             ELSE IF fn.params[2].type # "mcp.CallToolRequest" THEN next
             ELSE IF fn.results[1] # "*mcp.CallToolResult" THEN next
             ELSE IF fn.body = <<>> THEN next
             ELSE LET body == TrimRight(fn.body)
                  IN  Extracted(IF EndsWithNewline(body) THEN body
                                ELSE body \o <<"\n">>)

extractHandlerImplementation(fileContent, handlerName) ==
    IF ~Parses(fileContent) THEN Extracted(<<>>)
    ELSE ExtractFrom(fileContent.decls, handlerName, 1)

\* replaceHandlerImplementation keeping the braces of the rendered body
\* around an implementation that brings its own.
replaceHandlerImplementation_KeepBraces(fileContent, handlerName, implementation) ==
    IF ~Parses(fileContent) THEN fileContent
    ELSE LET hits == {i \in DOMAIN fileContent.decls :
                        /\ fileContent.decls[i].name = handlerName
                        /\ fileContent.decls[i].body # <<>>}
         IN  IF hits = {} THEN fileContent
             ELSE LET i == CHOOSE h \in hits : \A g \in hits : h <= g
                  IN  [fileContent EXCEPT
                         !.decls[i].body = <<"{">> \o implementation \o <<"}">>]

replaceHandlerImplementation(fileContent, handlerName, implementation) ==
    IF ~Parses(fileContent) THEN fileContent
    ELSE LET hits == {i \in DOMAIN fileContent.decls :
                        /\ fileContent.decls[i].name = handlerName
                        /\ fileContent.decls[i].body # <<>>}
         IN  IF hits = {} THEN fileContent
             ELSE LET i == CHOOSE h \in hits : \A g \in hits : h <= g
                      impl == IF EndsWithNewline(implementation) THEN implementation
                              ELSE implementation \o <<"\n">>
                  IN  [fileContent EXCEPT !.decls[i].body = impl]

\* One iteration of the loop of GenerateToolFiles up to format.Source: the
\* bytes to write for the tool, given what is at the target path.
ToolFileName(tool) == NameString(capitalizeFirstLetter(tool.Name)) \o ".go"

ToolFilePath(tool) == "mcptools/" \o ToolFileName(tool)

ToolFileContent(tool, d) ==
    LET data == ToolTemplateData(tool)
        outputFilePath == ToolFilePath(tool)
        existingContent == ReadFile(d, outputFilePath)
        found == Stat(d, outputFilePath) /\ ~existingContent.err
        existingImplementation ==
            IF found
            THEN extractHandlerImplementation(existingContent.content,
                                              data.ToolHandlerName)
            ELSE Extracted(<<>>)
        existingImports ==
            IF found THEN extractImports(existingContent.content) ELSE <<>>
        rendered == ExecuteToolTemplate(data)
        toolBuf == GoFile("mcptools",
                          IF Len(existingImports) > 0 THEN existingImports
                          ELSE requiredImports,
                          rendered.consts, rendered.decls)
        toolContent ==
            IF existingImplementation.body # <<>>
            THEN replaceHandlerImplementation(toolBuf, data.ToolHandlerName,
                                              existingImplementation.body)
            ELSE toolBuf
        formatted == FormatSource(toolContent)
    IN  [panic |-> existingImplementation.panic,
         err |-> formatted.err,
         file |-> formatted.file]

(***************************************************************************)
(* Preservation, regexp build (src/generator/tools.go:253-522).  It works  *)
(* on the text: a declaration is the token "func" (its signature, which    *)
(* holds no brace) followed by its body.                                   *)
(***************************************************************************)
ToolTemplateDataRegex(tool) ==
    [ToolNameOriginal |-> NameString(tool.Name),
     ToolNameGo |-> NameString(tool.Name),
     ToolHandlerName |-> NameString(tool.Name) \o "Handler",
     ToolDescription |-> tool.Description,
     RawInputSchema |-> tool.RawInputSchema,
     ResponseTemplate |-> tool.ResponseTemplate.PrependBody,
     InputSchemaConst |-> NameString(tool.Name) \o "InputSchema",
     ResponseTemplateConst |-> NameString(tool.Name) \o "ResponseTemplate"]

\* the template this build executes, as its output shows it
\* (src/unnamed/part_005): one response template constant
ExecuteToolTemplateRegex(data) ==
    [consts |->
        <<[name |-> data.InputSchemaConst, value |-> data.RawInputSchema],
          [name |-> data.ResponseTemplateConst, value |-> data.ResponseTemplate]>>,
     decls |-> TemplateDecls(data)]

\* the quoted paths of the import block; a name before a path is not read
extractImportsRegex(fileContent) ==
    IF ~IsGoFile(fileContent) THEN <<>>
    ELSE [i \in DOMAIN fileContent.imports |-> fileContent.imports[i].path]

RECURSIVE SortStrings(_)
SortStrings(S) ==
    IF S = {} THEN <<>>
    ELSE LET m == CHOOSE x \in S : \A y \in S : PathRank(x) <= PathRank(y)
         IN  <<m>> \o SortStrings(S \ {m})

mergeImports(required, existing) == SortStrings(Range(required) \cup Range(existing))

\* the pattern: func <name>(ctx context.Context, request mcp.CallToolRequest)
\* (*mcp.CallToolResult, error) {
MatchesPattern(fn, handlerName) ==
    /\ fn.name = handlerName
    /\ ~fn.recv
    /\ fn.params = HandlerParams
    /\ fn.hasResults
    /\ fn.results = HandlerResults
    /\ fn.body # <<>>

\* the text of the file from the token after the opening brace of decls[i]
TextAfterBrace(decls, i) ==
    LET RECURSIVE following(_)
        following(j) ==
            IF j > Len(decls) THEN <<>>
            ELSE <<"func">> \o decls[j].body \o following(j + 1)
    IN  Tail(decls[i].body) \o following(i + 1)

\* the loop that counts braces: text[1] is the byte at startIdx, which the
\* loop steps over before it looks; the result is the place of the brace
\* that brings the count to zero, 0 if the text ends first
RECURSIVE ScanClose(_, _, _)
ScanClose(text, endIdx, braceCount) ==
    IF endIdx > Len(text) THEN 0
    ELSE LET count == IF text[endIdx] = "{" THEN braceCount + 1
                      ELSE IF text[endIdx] = "}" THEN braceCount - 1
                      ELSE braceCount
         IN  IF count = 0 THEN endIdx ELSE ScanClose(text, endIdx + 1, count)

FirstMatch(fileContent, handlerName) ==
    IF ~IsGoFile(fileContent) THEN 0
    ELSE LET hits == {i \in DOMAIN fileContent.decls :
                         MatchesPattern(fileContent.decls[i], handlerName)}
         IN  IF hits = {} THEN 0 ELSE CHOOSE h \in hits : \A g \in hits : h <= g

extractHandlerImplementationRegex(fileContent, handlerName) ==
    LET i == FirstMatch(fileContent, handlerName)
    IN  IF i = 0 THEN <<>>
        ELSE LET text == TextAfterBrace(fileContent.decls, i)
                 endIdx == ScanClose(text, 2, 1)
             IN  IF endIdx = 0 THEN <<>> ELSE SubSeq(text, 1, endIdx - 1)

\* on the rendered template, whose handler is the last declaration
replaceHandlerImplementationRegex(fileContent, handlerName, implementation) ==
    LET i == FirstMatch(fileContent, handlerName)
    IN  IF i = 0 THEN fileContent
        ELSE LET text == TextAfterBrace(fileContent.decls, i)
                 endIdx == ScanClose(text, 2, 1)
                 impl == TrimSpace(implementation)
                 after == SubSeq(text, endIdx + 1, Len(text))
                 closed == <<"{", "\n">> \o impl \o <<"\n", "}">> \o after
                 open == <<"{", "\n">> \o impl \o after
             IN  IF endIdx = 0 \/ i # Len(fileContent.decls) THEN fileContent
                 ELSE IF Len(impl) > 0 /\ impl[Len(impl)] = "}"
                      THEN [fileContent EXCEPT !.decls[i].body = open]
                      ELSE [fileContent EXCEPT !.decls[i].body = closed]

ToolFilePathRegex(tool) == NameString(tool.Name) \o ".go"

ToolFileContentRegex(tool, packageName, d) ==
    LET data == ToolTemplateDataRegex(tool)
        outputFilePath == ToolFilePathRegex(tool)
        existingContent == ReadFile(d, outputFilePath)
        found == Stat(d, outputFilePath) /\ ~existingContent.err
        existingImplementation ==
            IF found
            THEN extractHandlerImplementationRegex(existingContent.content,
                                                   data.ToolHandlerName)
            ELSE <<>>
        existingImports ==
            IF found THEN extractImportsRegex(existingContent.content) ELSE <<>>
        mergedImports ==
            mergeImports([i \in DOMAIN requiredImports |-> requiredImports[i].path],
                         existingImports)
        rendered == ExecuteToolTemplateRegex(data)
        toolBuf == GoFile(packageName,
                          [i \in DOMAIN mergedImports |-> Import("", mergedImports[i])],
                          rendered.consts, rendered.decls)
        toolContent ==
            IF existingImplementation # <<>>
            THEN replaceHandlerImplementationRegex(toolBuf, data.ToolHandlerName,
                                                   existingImplementation)
            ELSE toolBuf
    IN  FormatSource(toolContent)

(***************************************************************************)
(* writeFileContent (src/generator/tools.go:534-562) on a directory d, a   *)
(* function from file paths to files.  os.ReadFile returns a non-nil slice *)
(* for a file it reads.  The result: the directory, whether os.WriteFile   *)
(* wrote, and whether an error is returned.                                *)
(***************************************************************************)
IsEmpty(content) == content = Raw(<<>>)

writeFileContent(d, fileName, newContent) ==
    LET existingContent == ReadFile(d, fileName)
        readErr == existingContent.err
        contentEqual ==
            IF ~readErr THEN existingContent.content = newContent
            ELSE IF readErr /\ IsEmpty(newContent) THEN TRUE
            ELSE FALSE
        w == WriteFile(d, fileName, newContent)
    IN  IF contentEqual THEN [dir |-> d, wrote |-> FALSE, err |-> FALSE]
        ELSE IF w.err THEN [dir |-> d, wrote |-> FALSE, err |-> TRUE]
        ELSE [dir |-> w.dir, wrote |-> TRUE, err |-> FALSE]

(***************************************************************************)
(* GenerateServerFile (src/generator/server.go) with the server template   *)
(* (src/generator/tools.go:564-587), and GenerateHTTPClient                *)
(* (src/unnamed/part_003).                                                 *)
(***************************************************************************)
MCPToolsImportPath == "example.com/app/mcptools"

ServerFileContent(cfg) ==
    [pkg |-> cfg.PackageName,
     imports |-> <<Import("", MCPToolsImportPath),
                   Import("", "github.com/mark3labs/mcp-go/server")>>,
     tools |-> [i \in DOMAIN cfg.Tools |->
                  [constructor |-> "mcptools.New" \o NameString(cfg.Tools[i].Name)
                                     \o "MCPTool",
                   handler |-> "mcptools." \o NameString(cfg.Tools[i].Name)
                                 \o "Handler"]]]

\* strings.ToLower over the include words used
ToLower(inc) ==
    CASE inc = "Types" -> "types"
      [] inc = "HTTPClient" -> "httpclient"
      [] OTHER -> inc

\* codegen.Generate is external: its output is a fixed function of the
\* OpenAPI document and the options, empty for a document it has nothing
\* to say about
CodegenGenerate(spec, generateTypes, generateClient) ==
    IF spec = "empty" THEN Raw(<<>>)
    ELSE Raw((IF generateTypes THEN <<"types of " \o spec>> ELSE <<>>)
             \o (IF generateClient THEN <<"client of " \o spec>> ELSE <<>>))

(***************************************************************************)
(* SpecSchema: GenerateJSONSchemaDraft7 is applied twice to the same list  *)
(* of Args.  Each run ranges over the ContentTypes maps in an order of its *)
(* own (Go leaves the iteration order of a map unspecified).               *)
(***************************************************************************)
\* the converter is not part of this specification
ConvIdle ==
    /\ operation = [kind |-> "none"]
    /\ built = [stage |-> "idle"]

GenIdle ==
    /\ config = [Tools |-> <<>>, PackageName |-> "", Document |-> "empty"]
    /\ dir = EmptyMap
    /\ pc = "idle"
    /\ idx = 0
    /\ run = 0
    /\ writes = {}
    /\ aborts = <<>>
    /\ startDir = EmptyMap
    /\ edits = 0
    /\ edited = EmptyMap
    /\ last = [op |-> "none"]

InitSchema ==
    /\ args \in SeqsUpTo(ArgPool, MaxArgs)
    /\ schemaOut = <<>>
    /\ GenIdle
    /\ ConvIdle

CallGenerateJSONSchemaDraft7 ==
    /\ Len(schemaOut) < 2
    /\ \E orders \in MapOrders(args) :
          schemaOut' = Append(schemaOut, GenerateJSONSchemaDraft7(args, orders))
    /\ UNCHANGED args
    /\ UNCHANGED genVars
    /\ UNCHANGED convVars

NextSchema == CallGenerateJSONSchemaDraft7

SpecSchema == InitSchema /\ [][NextSchema]_vars

(***************************************************************************)
(* Claims about the JSON Schema emitter, checked under SpecSchema.         *)
(***************************************************************************)
OutProperties(out) ==
    IF "properties" \in DOMAIN out.map THEN out.map["properties"] ELSE EmptyMap

OutRequired(out) ==
    IF "required" \in DOMAIN out.map THEN out.map["required"] ELSE <<>>

\* the runs that returned a schema and no error
Succeeded == {k \in DOMAIN schemaOut : schemaOut[k].err = ""}

\* the Arg carries a schema the emitter can lower
HasSchema(arg) ==
    IF arg.Source = "body"
    THEN \E ct \in DOMAIN arg.ContentTypes : arg.ContentTypes[ct] # NilSchema
    ELSE arg.Schema # NilSchema

\* the names of as[i] for the i in keep, in the order of the list, from i on
RECURSIVE NamesAt(_, _, _)
NamesAt(as, keep, i) ==
    IF i > Len(as) THEN <<>>
    ELSE (IF i \in keep THEN <<as[i].Name>> ELSE <<>>) \o NamesAt(as, keep, i + 1)

\* C3 (as claimed): two runs of GenerateJSONSchemaDraft7 on the same Args
\* return byte-identical output, whatever order the maps are ranged over in.
C3_Determinism ==
    Len(schemaOut) = 2 => schemaOut[1] = schemaOut[2]

\* C6: every name in the root "required" array is a key of the root
\* "properties" object, for every list of Args (deprecated Args, Args
\* without a schema, body Args without content types, shared names).
C6_RequiredClosure ==
    \A k \in Succeeded :
        \A i \in DOMAIN OutRequired(schemaOut[k]) :
            OutRequired(schemaOut[k])[i] \in DOMAIN OutProperties(schemaOut[k])

\* a run returned a non-empty "required" although a required Arg was left out
C6_Witness ==
    \E k \in Succeeded :
        /\ OutRequired(schemaOut[k]) # <<>>
        /\ \E i \in DOMAIN args :
              /\ args[i].Required
              /\ args[i].Deprecated \/ ~HasSchema(args[i])
              /\ args[i].Name \notin Range(OutRequired(schemaOut[k]))

\* C7 (as claimed): the keys of "properties" are exactly the names of the
\* Args whose Deprecated flag is false.
C7_KeysAreNonDeprecatedNames ==
    \A k \in Succeeded :
        DOMAIN OutProperties(schemaOut[k])
            = {args[i].Name : i \in {j \in DOMAIN args : ~args[j].Deprecated}}

\* C7 (amended): the keys of "properties" are exactly the names of the Args
\* that are not deprecated and carry a schema: a non-body Arg with a non-nil
\* Schema, a body Arg with a content type whose schema is non-nil.
C7_KeysAreSchemaCarryingNames ==
    \A k \in Succeeded :
        DOMAIN OutProperties(schemaOut[k])
            = {args[i].Name :
                 i \in {j \in DOMAIN args :
                          ~args[j].Deprecated /\ HasSchema(args[j])}}

\* a run returned properties and left out a non-deprecated Arg without schema
C7_Witness ==
    \E k \in Succeeded :
        /\ DOMAIN OutProperties(schemaOut[k]) # {}
        /\ \E i \in DOMAIN args :
              /\ ~args[i].Deprecated
              /\ ~HasSchema(args[i])
              /\ args[i].Name \notin DOMAIN OutProperties(schemaOut[k])

\* C8 (as claimed): "required" lists the names of the Args with Required =
\* true, in input order, and is omitted when there is none.
C8_RequiredIsRequiredArgs ==
    \A k \in Succeeded :
        /\ OutRequired(schemaOut[k])
             = NamesAt(args, {i \in DOMAIN args : args[i].Required}, 1)
        /\ "required" \in DOMAIN schemaOut[k].map
             <=> \E i \in DOMAIN args : args[i].Required

\* The Args the emitter counts: not deprecated, and carrying a schema or
\* being a body Arg with a single content type whose name an earlier Arg
\* already gave a property.
Counted(as, i) ==
    /\ ~as[i].Deprecated
    /\ \/ HasSchema(as[i])
       \/ /\ as[i].Source = "body"
          /\ Cardinality(DOMAIN as[i].ContentTypes) = 1
          /\ \E j \in 1..(i - 1) :
                /\ as[j].Name = as[i].Name
                /\ ~as[j].Deprecated
                /\ HasSchema(as[j])

\* C8 (amended): "required" lists the names of the counted Args with
\* Required = true, in input order, and is omitted when there is none.
C8_RequiredIsCountedRequiredArgs ==
    \A k \in Succeeded :
        LET keep == {i \in DOMAIN args : args[i].Required /\ Counted(args, i)}
        IN  /\ OutRequired(schemaOut[k]) = NamesAt(args, keep, 1)
            /\ "required" \in DOMAIN schemaOut[k].map <=> keep # {}

\* a run returned a required name and left out a required Arg that is
\* deprecated
C8_Witness ==
    \E k \in Succeeded :
        /\ Len(OutRequired(schemaOut[k])) >= 1
        /\ \E i \in DOMAIN args : args[i].Required /\ args[i].Deprecated

\* a second state of the claim's case: two names, in input order
C8_WitnessOrder ==
    \E k \in Succeeded :
        /\ Len(args) = 2
        /\ args[1].Name # args[2].Name
        /\ OutRequired(schemaOut[k]) = <<args[1].Name, args[2].Name>>

\* C9 (as claimed), for the Args of one operation (parameters, then the
\* body Arg, every content type with a schema): a body Arg with one content
\* type yields that content type's lowered schema, without "oneOf"; a body
\* Arg with n >= 2 content types yields {"oneOf": [...]} with n branches.
C9_BodyLoweringShape ==
    \A k \in Succeeded :
        LET as == args
            n == Len(as)
            body == as[n]
            cts == DOMAIN body.ContentTypes
            props == OutProperties(schemaOut[k])
        IN  ( /\ n >= 1
              /\ body.Source = "body"
              /\ ~body.Deprecated
              /\ \A i \in 1..(n - 1) : as[i].Source # "body"
              /\ \A ct \in cts : body.ContentTypes[ct] # NilSchema
              /\ cts # {} )
            => /\ body.Name \in DOMAIN props
               /\ Cardinality(cts) = 1 =>
                    \A ct \in cts :
                        props[body.Name] = schemaToDraft7Map(body.ContentTypes[ct]).map
               /\ Cardinality(cts) >= 2 =>
                    /\ DOMAIN props[body.Name] = {"oneOf"}
                    /\ Len(props[body.Name]["oneOf"]) = Cardinality(cts)

\* the body Arg at i is not replaced by a later oneOf of the same name
KeepsOneOf(as, i) ==
    \A j \in (i + 1)..Len(as) :
        ~ ( /\ as[j].Name = as[i].Name
            /\ ~as[j].Deprecated
            /\ as[j].Source = "body"
            /\ Cardinality(DOMAIN as[j].ContentTypes) >= 2
            /\ HasSchema(as[j]) )

\* the tagging rewrite, stated on the result: `branch` is `lowered` tagged
\* for content type ct
IsTagged(ct, lowered, branch) ==
    IF "description" \in DOMAIN lowered
    THEN /\ DOMAIN branch = DOMAIN lowered
         /\ branch["description"] = "[" \o ct \o "] " \o lowered["description"]
         /\ \A key \in DOMAIN lowered \ {"description"} : branch[key] = lowered[key]
    ELSE IF "title" \in DOMAIN lowered
    THEN /\ DOMAIN branch = DOMAIN lowered
         /\ branch["title"] = "[" \o ct \o "] " \o lowered["title"]
         /\ \A key \in DOMAIN lowered \ {"title"} : branch[key] = lowered[key]
    ELSE /\ DOMAIN branch = DOMAIN lowered \cup {"title"}
         /\ branch["title"] = "Schema for " \o ct
         /\ \A key \in DOMAIN lowered : branch[key] = lowered[key]

\* C10: for a body Arg with two or more content types, the oneOf holds for
\* every content type ct with a schema one branch, which is the lowered
\* schema with exactly one rewrite: "[ct] " before its description (title
\* untouched); else "[ct] " before its title; else title "Schema for ct".
C10_BranchTagging ==
    \A k \in Succeeded :
        \A i \in DOMAIN args :
            LET arg == args[i]
                cts == DOMAIN arg.ContentTypes
                used == {ct \in cts : arg.ContentTypes[ct] # NilSchema}
                props == OutProperties(schemaOut[k])
            IN  ( /\ ~arg.Deprecated
                  /\ arg.Source = "body"
                  /\ Cardinality(cts) >= 2
                  /\ used # {}
                  /\ KeepsOneOf(args, i) )
                => /\ arg.Name \in DOMAIN props
                   /\ DOMAIN props[arg.Name] = {"oneOf"}
                   /\ Len(props[arg.Name]["oneOf"]) = Cardinality(used)
                   /\ \A ct \in used :
                         \E b \in DOMAIN props[arg.Name]["oneOf"] :
                             IsTagged(ct,
                                      schemaToDraft7Map(arg.ContentTypes[ct]).map,
                                      props[arg.Name]["oneOf"][b])

\* a oneOf was emitted with one branch that had a description and a title,
\* and one that had only a title
C10_Witness ==
    \E k \in Succeeded :
        \E i \in DOMAIN args :
            /\ ~args[i].Deprecated
            /\ args[i].Source = "body"
            /\ DOMAIN args[i].ContentTypes = ContentTypeNames
            /\ args[i].ContentTypes["application/json"] = SBoth
            /\ args[i].ContentTypes["application/xml"] = STitle
            /\ args[i].Name \in DOMAIN OutProperties(schemaOut[k])
            /\ "oneOf" \in DOMAIN OutProperties(schemaOut[k])[args[i].Name]

\* a oneOf was emitted with a branch that had neither description nor title
C10_WitnessSynthesized ==
    \E k \in Succeeded :
        \E i \in DOMAIN args :
            /\ ~args[i].Deprecated
            /\ args[i].Source = "body"
            /\ DOMAIN args[i].ContentTypes = ContentTypeNames
            /\ args[i].ContentTypes["application/json"] = SPlain
            /\ args[i].Name \in DOMAIN OutProperties(schemaOut[k])
            /\ "oneOf" \in DOMAIN OutProperties(schemaOut[k])[args[i].Name]


(***************************************************************************)
(* Spec: generation runs of the go/ast build over an output directory.     *)
(* A run emits the tool files in the order of config.Tools, then           *)
(* server.go.  The host may abort a run between two files and start it     *)
(* again; between runs a user may rewrite the body of an emitted handler,  *)
(* and the HTTP client may be generated.                                   *)
(***************************************************************************)
Resp(suffix) ==
    [Suffix |-> suffix, StatusCode |-> "200", ContentType |-> "application/json",
     PrependBody |-> "# API Response Information"]

\* "Echo" has a description with double quotes in it, which the template
\* copies between double quotes
ToolPool ==
    { MkTool(MkName("g", "etTodo"), <<"Get a todo">>, "{getTodo}", <<Resp("200_json")>>),
      MkTool(MkName("G", "etTodo"), <<"Get a todo again">>, "{GetTodo}", <<>>),
      MkTool(MkName("L", "istTodos"), <<"List todos">>, "{ListTodos}", <<Resp("200_json")>>),
      MkTool(MkName("E", "cho"), <<"Say ", "\"", "hi", "\"">>, "{Echo}", <<>>) }

Documents == {"empty", "todo api"}

\* operation identifiers are unique within a document
ToolLists ==
    {ts \in SeqsUpTo(ToolPool, MaxTools) :
        /\ Len(ts) >= 1
        /\ \A i, j \in DOMAIN ts : i # j => ts[i].Name # ts[j].Name}

Configs ==
    {[Tools |-> ts, PackageName |-> "mcpgen", Document |-> doc] :
        ts \in ToolLists, doc \in Documents}

NoEdit == <<>>

UserBody == <<"{", "user code", "}">>

\* what may be at the path of a tool's file before the first run: nothing,
\* a file that is no Go source, a file of an earlier generation that a user
\* completed (with an import of their own, not yet gofmt'ed), a file whose
\* function of the handler's name takes other parameters, one whose
\* function of that name returns nothing, a completed file that the
\* generator may write and not read, and a file it may neither read nor
\* write.
ExistingFiles(pkg, factory, handlerName) ==
    LET file(imports, handler) == GoFile(pkg, imports, <<>>, <<factory, handler>>)
    IN  { Missing,
          Raw(<<"not Go">>),
          file(<<Import("", "os")>> \o requiredImports,
               FuncDecl(handlerName, FALSE, HandlerParams, TRUE, HandlerResults,
                        UserBody)),
          file(requiredImports,
               FuncDecl(handlerName, FALSE,
                        <<Param("ctx", "context.Context"), Param("request", "string")>>,
                        TRUE, HandlerResults, UserBody)),
          file(requiredImports,
               FuncDecl(handlerName, FALSE, HandlerParams, FALSE, <<>>, UserBody)),
          NoRead(file(requiredImports,
                      FuncDecl(handlerName, FALSE, HandlerParams, TRUE,
                               HandlerResults, UserBody)), TRUE),
          NoRead(Raw(<<"not Go">>), FALSE) }

ExistingToolFiles(tool) ==
    LET data == ToolTemplateData(tool)
    IN  ExistingFiles("mcptools", TemplateDecls(data)[1], data.ToolHandlerName)

ToolPaths(cfg) == {ToolFilePath(cfg.Tools[i]) : i \in DOMAIN cfg.Tools}

Paths(cfg) == ToolPaths(cfg) \cup {"server.go", "HttpClient.go"}

ExistingAt(cfg, path) ==
    IF path = "server.go" THEN {Missing, Raw(<<"stale">>), NoRead(Raw(<<"stale">>), FALSE)}
    ELSE IF path = "HttpClient.go" THEN {Missing}
    ELSE UNION {ExistingToolFiles(cfg.Tools[i]) :
                   i \in {j \in DOMAIN cfg.Tools : ToolFilePath(cfg.Tools[j]) = path}}

StartDirs(cfg) ==
    LET all == UNION {ExistingAt(cfg, p) : p \in Paths(cfg)}
    IN  {d \in [Paths(cfg) -> all] : \A p \in Paths(cfg) : d[p] \in ExistingAt(cfg, p)}

SchemaIdle ==
    /\ args = <<>>
    /\ schemaOut = <<>>

Init ==
    /\ SchemaIdle
    /\ ConvIdle
    /\ config \in Configs
    /\ dir \in StartDirs(config)
    /\ startDir = dir
    /\ pc = "tools"
    /\ idx = 1
    /\ run = 1
    /\ writes = {}
    /\ aborts = <<>>
    /\ edits = 0
    /\ edited = [p \in Paths(config) |-> NoEdit]
    /\ last = [op |-> "none"]

\* the record of a step that went through writeFileContent
Step(op, path, content, w) ==
    [op |-> op, file |-> path, before |-> dir[path], content |-> content,
     wrote |-> w.wrote, after |-> w.dir[path], edit |-> edited[path],
     tool |-> IF op \in {"tool", "toolRegex"} THEN config.Tools[idx] ELSE Missing]

\* one iteration of the loop of GenerateToolFiles (tools.go:31-122)
GenerateToolFile ==
    /\ pc = "tools"
    /\ idx <= Len(config.Tools)
    /\ LET tool == config.Tools[idx]
           path == ToolFilePath(tool)
           r == ToolFileContent(tool, dir)
           w == writeFileContent(dir, path, r.file)
       IN  IF r.panic \/ r.err \/ w.err
           THEN /\ pc' = IF r.panic THEN "panicked" ELSE "failed"
                /\ last' = [op |-> "error", file |-> path]
                /\ UNCHANGED <<dir, idx, writes, edited>>
           ELSE /\ dir' = w.dir
                /\ writes' = IF w.wrote THEN writes \cup {path} ELSE writes
                /\ idx' = idx + 1
                /\ pc' = IF idx = Len(config.Tools) THEN "server" ELSE "tools"
                /\ edited' = [edited EXCEPT ![path] = NoEdit]
                /\ last' = Step("tool", path, r.file, w)
    /\ UNCHANGED <<config, run, aborts, startDir, edits>>
    /\ UNCHANGED schemaVars
    /\ UNCHANGED convVars

GenerateServerFile ==
    /\ pc = "server"
    /\ LET content == ServerFileContent(config)
           w == writeFileContent(dir, "server.go", content)
       IN  IF w.err
           THEN /\ pc' = "failed"
                /\ last' = [op |-> "error", file |-> "server.go"]
                /\ UNCHANGED <<dir, writes>>
           ELSE /\ pc' = "done"
                /\ dir' = w.dir
                /\ writes' = IF w.wrote THEN writes \cup {"server.go"} ELSE writes
                /\ last' = Step("server", "server.go", content, w)
    /\ UNCHANGED <<config, idx, run, aborts, startDir, edits, edited>>
    /\ UNCHANGED schemaVars
    /\ UNCHANGED convVars


IncludesPool == {<<"types">>, <<"Types", "HTTPClient">>, <<"httpclient">>, <<"docs">>}

\* GenerateHTTPClient(includes), called by the host between two runs
GenerateHTTPClient ==
    /\ pc = "done"
    /\ \E includes \in IncludesPool :
          LET generateTypes == \E i \in DOMAIN includes : ToLower(includes[i]) = "types"
              generateClient == \E i \in DOMAIN includes : ToLower(includes[i]) = "httpclient"
              code == CodegenGenerate(config.Document, generateTypes, generateClient)
              w == writeFileContent(dir, "HttpClient.go", code)
          IN  IF (~generateTypes /\ ~generateClient) \/ w.err
              THEN /\ last' = [op |-> "error", file |-> "HttpClient.go"]
                   /\ UNCHANGED <<dir, writes>>
              ELSE /\ dir' = w.dir
                   /\ writes' = IF w.wrote THEN writes \cup {"HttpClient.go"} ELSE writes
                   /\ last' = Step("client", "HttpClient.go", code, w)
    /\ UNCHANGED <<config, pc, idx, run, aborts, startDir, edits, edited>>
    /\ UNCHANGED schemaVars
    /\ UNCHANGED convVars

\* the bodies a user writes: gofmt'ed, with white space of their own, with
\* a nested block, and with a brace left open
UserBodies ==
    { <<"{", "my code", "}">>,
      <<"{", "ws", "my code", "}">>,
      <<"{", "if", "{", "my code", "}", "}">>,
      <<"{", "if", "{", "my code", "}">> }

\* the file with the body of its first function named handlerName replaced
WithBody(fileContent, handlerName, b) ==
    LET hits == {i \in DOMAIN fileContent.decls : fileContent.decls[i].name = handlerName}
        i == CHOOSE h \in hits : \A g \in hits : h <= g
    IN  [fileContent EXCEPT !.decls[i].body = b]

\* a user rewrites the body of the handler in the file at path, and
\* nothing else
EditBody(path, handlerName, b) ==
    LET new == WithBody(dir[path], handlerName, b)
    IN  /\ IsGoFile(dir[path])
        /\ new # dir[path]
        /\ dir' = [dir EXCEPT ![path] = new]
        /\ edited' = [edited EXCEPT ![path] = b]

\* between two runs, a user rewrites the handler of one emitted tool file
UserEditBody ==
    /\ pc = "done"
    /\ edits < MaxEdits
    /\ \E i \in DOMAIN config.Tools, b \in UserBodies :
          EditBody(ToolFilePath(config.Tools[i]),
                   ToolTemplateData(config.Tools[i]).ToolHandlerName, b)
    /\ edits' = edits + 1
    /\ last' = [op |-> "edit"]
    /\ UNCHANGED <<config, pc, idx, run, writes, aborts, startDir>>
    /\ UNCHANGED schemaVars
    /\ UNCHANGED convVars

\* the host kills the run between two files
Abort ==
    /\ pc \in {"tools", "server"}
    /\ Len(aborts) < MaxAborts
    /\ aborts' = Append(aborts, [idx |-> idx, writes |-> writes])
    /\ pc' = "aborted"
    /\ last' = [op |-> "abort"]
    /\ UNCHANGED <<config, dir, idx, run, writes, startDir, edits, edited>>
    /\ UNCHANGED schemaVars
    /\ UNCHANGED convVars

\* the host runs the generator again with the same inputs
StartRun ==
    /\ pc \in {"done", "aborted", "failed", "panicked"}
    /\ run < MaxRuns
    /\ run' = run + 1
    /\ pc' = "tools"
    /\ idx' = 1
    /\ writes' = {}
    /\ last' = [op |-> "start"]
    /\ UNCHANGED <<config, dir, aborts, startDir, edits, edited>>
    /\ UNCHANGED schemaVars
    /\ UNCHANGED convVars

Next ==
    \/ GenerateToolFile
    \/ GenerateServerFile
    \/ GenerateHTTPClient
    \/ UserEditBody
    \/ Abort
    \/ StartRun

Spec == Init /\ [][Next]_vars



(***************************************************************************)
(* SpecRegex: the same runs by the regexp build, which writes the tool     *)
(* files next to server.go and under the tools' own names.                 *)
(***************************************************************************)
ExistingToolFilesRegex(tool, packageName) ==
    LET data == ToolTemplateDataRegex(tool)
    IN  ExistingFiles(packageName, TemplateDecls(data)[1], data.ToolHandlerName)

ToolPathsRegex(cfg) == {ToolFilePathRegex(cfg.Tools[i]) : i \in DOMAIN cfg.Tools}

PathsRegex(cfg) == ToolPathsRegex(cfg) \cup {"server.go", "HttpClient.go"}

ExistingAtRegex(cfg, path) ==
    IF path = "server.go" THEN {Missing, Raw(<<"stale">>)}
    ELSE IF path = "HttpClient.go" THEN {Missing}
    ELSE UNION {ExistingToolFilesRegex(cfg.Tools[i], cfg.PackageName) :
                   i \in {j \in DOMAIN cfg.Tools : ToolFilePathRegex(cfg.Tools[j]) = path}}

StartDirsRegex(cfg) ==
    LET all == UNION {ExistingAtRegex(cfg, p) : p \in PathsRegex(cfg)}
    IN  {d \in [PathsRegex(cfg) -> all] :
            \A p \in PathsRegex(cfg) : d[p] \in ExistingAtRegex(cfg, p)}

InitRegex ==
    /\ SchemaIdle
    /\ ConvIdle
    /\ config \in Configs
    /\ dir \in StartDirsRegex(config)
    /\ startDir = dir
    /\ pc = "tools"
    /\ idx = 1
    /\ run = 1
    /\ writes = {}
    /\ aborts = <<>>
    /\ edits = 0
    /\ edited = [p \in PathsRegex(config) |-> NoEdit]
    /\ last = [op |-> "none"]

\* one iteration of the loop of GenerateToolFiles (tools.go:264-350): the
\* file is written whatever is at its path
GenerateToolFileRegex ==
    /\ pc = "tools"
    /\ idx <= Len(config.Tools)
    /\ LET tool == config.Tools[idx]
           path == ToolFilePathRegex(tool)
           r == ToolFileContentRegex(tool, config.PackageName, dir)
           written == WriteFile(dir, path, r.file)
           w == [dir |-> written.dir, wrote |-> TRUE]
       IN  IF r.err \/ written.err
           THEN /\ pc' = "failed"
                /\ last' = [op |-> "error", file |-> path]
                /\ UNCHANGED <<dir, idx, writes, edited>>
           ELSE /\ dir' = w.dir
                /\ writes' = writes \cup {path}
                /\ idx' = idx + 1
                /\ pc' = IF idx = Len(config.Tools) THEN "server" ELSE "tools"
                /\ edited' = [edited EXCEPT ![path] = NoEdit]
                /\ last' = Step("toolRegex", path, r.file, w)
    /\ UNCHANGED <<config, run, aborts, startDir, edits>>
    /\ UNCHANGED schemaVars
    /\ UNCHANGED convVars

UserEditBodyRegex ==
    /\ pc = "done"
    /\ edits < MaxEdits
    /\ \E i \in DOMAIN config.Tools, b \in UserBodies :
          EditBody(ToolFilePathRegex(config.Tools[i]),
                   ToolTemplateDataRegex(config.Tools[i]).ToolHandlerName, b)
    /\ edits' = edits + 1
    /\ last' = [op |-> "edit"]
    /\ UNCHANGED <<config, pc, idx, run, writes, aborts, startDir>>
    /\ UNCHANGED schemaVars
    /\ UNCHANGED convVars

NextRegex ==
    \/ GenerateToolFileRegex
    \/ GenerateServerFile
    \/ UserEditBodyRegex
    \/ StartRun

SpecRegex == InitRegex /\ [][NextRegex]_vars

(***************************************************************************)
(* Claims about the code emitter.                                          *)
(***************************************************************************)
HandlerBodyOf(fileContent, handlerName) ==
    LET hits == {i \in DOMAIN fileContent.decls : fileContent.decls[i].name = handlerName}
        i == CHOOSE h \in hits : \A g \in hits : h <= g
    IN  fileContent.decls[i].body

\* C1 (as claimed): when a tool's emitted file had only its handler body
\* changed to B and the tool is generated again, the new file's handler body
\* is B, byte for byte, and the rest of the file is what a generation with
\* no existing file gives.
C1_Preservation ==
    (last.op = "tool" /\ last.edit # NoEdit) =>
        LET handlerName == ToolTemplateData(last.tool).ToolHandlerName
            fresh == ToolFileContent(last.tool, [p \in {last.file} |-> Missing]).file
        IN  /\ HandlerBodyOf(last.after, handlerName) = last.edit
            /\ WithBody(last.after, handlerName, <<>>) = WithBody(fresh, handlerName, <<>>)

\* C2 (as claimed): a second complete run with the same inputs, nothing
\* having changed since the first, passes no tool file and no server.go to
\* os.WriteFile.
C2_IdempotentRun ==
    (pc = "done" /\ run >= 2 /\ aborts = <<>> /\ edits = 0) =>
        writes \ {"HttpClient.go"} = {}

\* C4 (as claimed): a call of writeFileContent writes the target exactly
\* when the target is missing and the content is not empty, or the target
\* exists with other bytes; a call that does not write leaves the target as
\* it was (missing, if it was missing).
C4_FileWriterRule ==
    (last.op \in {"tool", "server", "client"}) =>
        /\ last.wrote <=>
              \/ (last.before = Missing /\ ~IsEmpty(last.content))
              \/ (last.before # Missing /\ Bytes(last.before) # last.content)
        /\ ~last.wrote => dir[last.file] = last.before

\* the directory a run gives when nothing interrupts it
RECURSIVE RunTools(_, _, _)
RunTools(d, tools, i) ==
    IF i > Len(tools) THEN [ok |-> TRUE, dir |-> d]
    ELSE LET path == ToolFilePath(tools[i])
             r == ToolFileContent(tools[i], d)
             w == writeFileContent(d, path, r.file)
         IN  IF r.panic \/ r.err \/ w.err THEN [ok |-> FALSE, dir |-> d]
             ELSE RunTools(w.dir, tools, i + 1)

UninterruptedRun(d, cfg) ==
    LET t == RunTools(d, cfg.Tools, 1)
        w == writeFileContent(t.dir, "server.go", ServerFileContent(cfg))
    IN  IF ~t.ok THEN t ELSE [ok |-> ~w.err, dir |-> w.dir]

\* C5: when a run was aborted and generation was run again to completion,
\* the tool files and server.go are what one uninterrupted run from the
\* starting directory gives.
C5_ConvergenceAfterAbort ==
    (pc = "done" /\ Len(aborts) > 0 /\ edits = 0) =>
        LET u == UninterruptedRun(startDir, config)
        IN  /\ u.ok
            /\ \A p \in Paths(config) \ {"HttpClient.go"} : dir[p] = u.dir[p]

\* a run was aborted after it had written some but not all of two tools'
\* files, and the run after it wrote the rest and completed
C5_Witness ==
    /\ pc = "done"
    /\ Len(aborts) = 1
    /\ edits = 0
    /\ aborts[1].writes # {}
    /\ aborts[1].idx = 2
    /\ Len(config.Tools) = 2
    /\ writes # {}

(***************************************************************************)
(* The normalizer (src/converter/requestArgs.go): applySchema turns a      *)
(* resolved openapi3.Schema into the Schema IR.                            *)
(*                                                                         *)
(* The OpenAPI side.  A *SchemaRef is nil (NilRef), non-nil with a nil     *)
(* Value (EmptyRef, what `{}` resolves to) or non-nil with a Value.        *)
(* Schema.Type is a *Types: a nil pointer (NoType), or a pointer to a      *)
(* slice, which is itself a nil slice in NilTypes.  AdditionalProperties   *)
(* is a value with two pointers: Has to a bool, Schema to a SchemaRef.      *)
(***************************************************************************)
NilRef == [ref |-> "nil"]

EmptyRef == [ref |-> "empty"]

Ref(s) == [ref |-> "value", Value |-> s]

HasValue(r) == r.ref = "value"

NoType == [ptr |-> "nil"]

TypeOf(elems) == [ptr |-> "set", elems |-> elems, nilSlice |-> FALSE]

NilTypes == [ptr |-> "set", elems |-> <<>>, nilSlice |-> TRUE]

NoAdditional == [Has |-> "nil", Schema |-> NilRef]

AdditionalBool(b) == [Has |-> IF b THEN "true" ELSE "false", Schema |-> NilRef]

AdditionalSchema(r) == [Has |-> "nil", Schema |-> r]

\* an openapi3.Schema with metadata and types only
MkSource(title, desc, type, nullable) ==
    [Title |-> title, Description |-> desc, Type |-> type,
     Nullable |-> nullable, Items |-> NilRef, Properties |-> EmptyMap,
     Required |-> <<>>, AdditionalProperties |-> NoAdditional,
     OneOf |-> <<>>, AnyOf |-> <<>>, AllOf |-> <<>>, Not |-> NilRef]

\* &Schema{}
EmptySchema == MkSchema("", "", <<>>, <<>>)

ApplyOk(s) == [err |-> "", schema |-> s]

ApplyFail(e) == [err |-> e, schema |-> NilSchema]

contains(slice, str) == \E i \in DOMAIN slice : slice[i] = str

hasStringType(schema) == schema.Type # NoType /\ contains(schema.Type.elems, "string")

hasNumericType(schema) ==
    /\ schema.Type # NoType
    /\ contains(schema.Type.elems, "number") \/ contains(schema.Type.elems, "integer")

hasArrayType(schema) == schema.Type # NoType /\ contains(schema.Type.elems, "array")

hasObjectType(schema) == schema.Type # NoType /\ contains(schema.Type.elems, "object")

\* result.Types of applySchema (requestArgs.go:106-129)
applyTypes(schema) ==
    LET base == IF schema.Type # NoType THEN schema.Type.elems ELSE <<>>
        \* result.Types == nil: only when *schema.Type is a nil slice
        isNil == schema.Type # NoType /\ schema.Type.nilSlice
        isNullableAlreadyPresent == ~isNil /\ contains(base, "null")
        seeded == IF isNil THEN Append(base, "string") ELSE base
    IN  IF ~schema.Nullable THEN base
        ELSE IF isNullableAlreadyPresent THEN seeded
        ELSE Append(seeded, "null")

\* the entry of result.Properties for one property reference
\* (requestArgs.go:297-320): none for a nil reference, &Schema{} for a
\* reference with a nil Value, else the normalized schema `sub`
propertyOf_DropsEmpty(propSchemaRef, sub) ==
    IF propSchemaRef = NilRef \/ propSchemaRef = EmptyRef THEN NilSchema
    ELSE sub.schema

propertyOf(propSchemaRef, sub) ==
    IF propSchemaRef = NilRef THEN NilSchema
    ELSE IF HasValue(propSchemaRef) THEN sub.schema
    ELSE EmptySchema

\* the two additionalProperties fields of the result
\* (requestArgs.go:331-361); `sub` is applySchema of the schema value
additionalOf_KeepsBoth(ap, sub) ==
    IF ap.Has # "nil"
    THEN [DisallowAdditionalProperties |-> ap.Has = "false",
          AdditionalProperties |-> EmptySchema]
    ELSE [DisallowAdditionalProperties |-> FALSE,
          AdditionalProperties |-> NilSchema]

additionalOf(ap, sub) ==
    IF ap.Has # "nil"
    THEN IF ap.Has = "false"
         THEN [DisallowAdditionalProperties |-> TRUE,
               AdditionalProperties |-> NilSchema]
         ELSE [DisallowAdditionalProperties |-> FALSE,
               AdditionalProperties |-> EmptySchema]
    ELSE IF ap.Schema # NilRef
    THEN IF HasValue(ap.Schema)
         THEN [DisallowAdditionalProperties |-> FALSE,
               AdditionalProperties |->
                  IF sub.schema # NilSchema THEN sub.schema ELSE EmptySchema]
         ELSE [DisallowAdditionalProperties |-> FALSE,
               AdditionalProperties |-> EmptySchema]
    ELSE [DisallowAdditionalProperties |-> FALSE,
          AdditionalProperties |-> NilSchema]

\* the StringValidation and the NumberValidation of a schema that sets no
\* bound and no pattern (requestArgs.go:232-256); schemaToDraft7Map emits
\* no keyword for them (toolSchema.go:214-243)
createStringValidation(schema) ==
    [nil |-> FALSE, MinLength |-> 0, MaxLength |-> "nil", Pattern |-> ""]

createNumberValidation(schema) ==
    [nil |-> FALSE, Minimum |-> "nil", Maximum |-> "nil", MultipleOf |-> "nil",
     ExclusiveMinimum |-> FALSE, ExclusiveMaximum |-> FALSE]

RECURSIVE applySchema(_)
RECURSIVE createArrayValidation(_)
RECURSIVE createObjectValidation(_)

createArrayValidation(schema) ==
    LET sub == IF HasValue(schema.Items) THEN applySchema(schema.Items.Value)
               ELSE ApplyOk(NilSchema)
    IN  IF sub.err # ""
        THEN [err |-> "error processing array items schema", val |-> NilArray]
        ELSE [err |-> "", val |-> MkArray(sub.schema)]

createObjectValidation(schema) ==
    LET names == DOMAIN schema.Properties
        subs == [n \in names |->
                    IF HasValue(schema.Properties[n])
                    THEN applySchema(schema.Properties[n].Value)
                    ELSE ApplyOk(NilSchema)]
        props == [n \in names |-> propertyOf(schema.Properties[n], subs[n])]
        kept == {n \in names : props[n] # NilSchema}
        ap == schema.AdditionalProperties
        apSub == IF ap.Has = "nil" /\ HasValue(ap.Schema)
                 THEN applySchema(ap.Schema.Value)
                 ELSE ApplyOk(NilSchema)
        add == additionalOf(ap, apSub)
    IN  IF \E n \in names : subs[n].err # ""
        THEN [err |-> "error processing property", val |-> NilObject]
        ELSE IF apSub.err # ""
        THEN [err |-> "error processing additionalProperties schema",
              val |-> NilObject]
        ELSE [err |-> "",
              val |-> MkObject([n \in kept |-> props[n]], schema.Required,
                               add.AdditionalProperties,
                               add.DisallowAdditionalProperties)]

applySchema(schema) ==
    LET arr == IF hasArrayType(schema) THEN createArrayValidation(schema)
               ELSE [err |-> "", val |-> NilArray]
        obj == IF hasObjectType(schema) THEN createObjectValidation(schema)
               ELSE [err |-> "", val |-> NilObject]
        Subs(kw, L) ==
            [i \in 1..Len(L) |->
                IF HasValue(L[i]) THEN applySchema(L[i].Value)
                ELSE ApplyFail(kw \o " contains a nil schema reference or value")]
        \* the error of the loop over one composition keyword, "" if none
        CompErr(kw, L) ==
            LET subs == Subs(kw, L)
            IN  IF \A i \in DOMAIN subs : subs[i].err = "" THEN ""
                ELSE LET bad == CHOOSE i \in DOMAIN subs :
                                  /\ subs[i].err # ""
                                  /\ \A j \in 1..(i - 1) : subs[j].err = ""
                     IN  IF HasValue(L[bad])
                         THEN "error processing " \o kw \o " sub-schema"
                         ELSE subs[bad].err
        Comp(kw, L) == [i \in 1..Len(L) |-> Subs(kw, L)[i].schema]
        notSub == IF HasValue(schema.Not) THEN applySchema(schema.Not.Value)
                  ELSE ApplyOk(NilSchema)
        errs == <<IF arr.err # "" THEN "error creating array validation" ELSE "",
                  IF obj.err # "" THEN "error creating object validation" ELSE "",
                  CompErr("oneOf", schema.OneOf), CompErr("anyOf", schema.AnyOf),
                  CompErr("allOf", schema.AllOf),
                  IF notSub.err # "" THEN "error processing not sub-schema" ELSE "">>
    IN  IF \E i \in DOMAIN errs : errs[i] # ""
        THEN ApplyFail(errs[CHOOSE i \in DOMAIN errs :
                                 /\ errs[i] # ""
                                 /\ \A j \in 1..(i - 1) : errs[j] = ""])
        ELSE ApplyOk(
               [MkSchema(schema.Title, schema.Description, applyTypes(schema),
                         Comp("oneOf", schema.OneOf))
                  EXCEPT !.AnyOf = Comp("anyOf", schema.AnyOf),
                         !.AllOf = Comp("allOf", schema.AllOf),
                         !.Not = notSub.schema,
                         !.String = IF hasStringType(schema)
                                    THEN createStringValidation(schema)
                                    ELSE NilString,
                         !.Number = IF hasNumericType(schema)
                                    THEN createNumberValidation(schema)
                                    ELSE NilNumber,
                         !.Array = arr.val,
                         !.Object = obj.val])

(***************************************************************************)
(* SpecNormalize: applySchema applied to one resolved schema, and the      *)
(* result lowered by schemaToDraft7Map.                                    *)
(***************************************************************************)
SourceTypes ==
    {NoType, NilTypes, TypeOf(<<>>), TypeOf(<<"string">>),
     TypeOf(<<"string", "null">>), TypeOf(<<"integer", "string">>),
     TypeOf(<<"object">>)}

LeafSources ==
    {MkSource(title, "", type, nullable) :
        title \in {"", "Todo"}, type \in SourceTypes, nullable \in BOOLEAN}

SString == MkSource("", "", TypeOf(<<"string">>), FALSE)

SNullable == MkSource("", "A note", NoType, TRUE)

\* anyOf of two branches, to sit inside another schema
SNested ==
    [MkSource("", "", NoType, FALSE) EXCEPT !.AnyOf = <<Ref(SNullable), Ref(SString)>>]

BranchRefs == {EmptyRef, Ref(SString), Ref(SNested)}

CompositionSources ==
    {[MkSource("", "", type, FALSE) EXCEPT
         !.OneOf = o, !.AnyOf = a, !.AllOf = l, !.Not = n] :
        type \in {NoType, TypeOf(<<"object">>)},
        o \in SeqsUpTo(BranchRefs, 2),
        a \in {<<>>, <<Ref(SNested), Ref(SString)>>},
        l \in {<<>>, <<Ref(SString)>>, <<Ref(SString), Ref(SNullable)>>},
        n \in {NilRef, EmptyRef, Ref(SString), Ref(SNested)}}

\* a schema whose oneOf holds a reference without a value: applySchema fails
SFailing == [MkSource("", "", NoType, FALSE) EXCEPT !.OneOf = <<EmptyRef>>]

PropertyRefs == {NilRef, EmptyRef, Ref(SString), Ref(SNested), Ref(SFailing)}

PropertyMaps ==
    UNION {[K -> PropertyRefs] : K \in SUBSET {"id", "note"}}

AdditionalPool ==
    {NoAdditional, AdditionalBool(TRUE), AdditionalBool(FALSE),
     AdditionalSchema(EmptyRef), AdditionalSchema(Ref(SString)),
     AdditionalSchema(Ref(SNested)), AdditionalSchema(Ref(SFailing))}

ObjectSources ==
    {[MkSource("", "", type, FALSE) EXCEPT
         !.Properties = props, !.AdditionalProperties = ap,
         !.Required = IF "id" \in DOMAIN props THEN <<"id">> ELSE <<>>] :
        type \in {NoType, TypeOf(<<"object">>), TypeOf(<<"object", "null">>)},
        props \in PropertyMaps, ap \in AdditionalPool}

ArraySources ==
    {[MkSource("", "", type, FALSE) EXCEPT !.Items = items] :
        type \in {NoType, TypeOf(<<"array">>)},
        items \in {NilRef, EmptyRef, Ref(SString), Ref(SNested), Ref(SFailing)}}

SourceSchemas ==
    LeafSources \cup CompositionSources \cup ObjectSources \cup ArraySources

InitNormalize ==
    /\ SchemaIdle
    /\ GenIdle
    /\ operation \in {[kind |-> "schema", schema |-> s] : s \in SourceSchemas}
    /\ built = [stage |-> "start"]

CallApplySchema ==
    /\ built.stage = "start"
    /\ built' = [stage |-> "applied", applied |-> applySchema(operation.schema)]
    /\ UNCHANGED operation
    /\ UNCHANGED schemaVars
    /\ UNCHANGED genVars

CallSchemaToDraft7Map ==
    /\ built.stage = "applied"
    /\ built.applied.err = ""
    /\ built' = [stage |-> "lowered", applied |-> built.applied,
                 lowered |-> schemaToDraft7Map(built.applied.schema)]
    /\ UNCHANGED operation
    /\ UNCHANGED schemaVars
    /\ UNCHANGED genVars

NextNormalize == CallApplySchema \/ CallSchemaToDraft7Map

SpecNormalize == InitNormalize /\ [][NextNormalize]_vars

\* applySchema has returned a Schema
Applied == built.stage \in {"applied", "lowered"} /\ built.applied.err = ""

\* both passes have returned without error
Lowered == built.stage = "lowered" /\ built.lowered.err = ""

Occurrences(slice, str) == Cardinality({i \in DOMAIN slice : slice[i] = str})

\* C12 (as claimed): when the source schema has Nullable = true, the Types
\* of the Schema applySchema returns hold "null" exactly once, and they are
\* exactly <<"string", "null">> when the source has no base type (Type
\* absent or empty).
C12_NullableNormalization ==
    (Applied /\ operation.schema.Nullable) =>
        /\ Occurrences(built.applied.schema.Types, "null") = 1
        /\ (operation.schema.Type = NoType \/ operation.schema.Type.elems = <<>>)
              => built.applied.schema.Types = <<"string", "null">>

\* C13: for an object source schema, createObjectValidation gives
\* DisallowAdditionalProperties = TRUE and no AdditionalProperties for an
\* explicit false; the empty Schema for an explicit true; the normalized
\* sub-schema for a schema value; the empty Schema for a reference with an
\* empty value; neither field when additionalProperties is absent; and
\* DisallowAdditionalProperties always implies AdditionalProperties absent.
C13_AdditionalPropertiesMapping ==
    (Applied /\ hasObjectType(operation.schema)) =>
        LET ap == operation.schema.AdditionalProperties
            o == built.applied.schema.Object
        IN  /\ o # NilObject
            /\ ap.Has = "false" =>
                  o.DisallowAdditionalProperties /\ o.AdditionalProperties = NilSchema
            /\ ap.Has = "true" =>
                  ~o.DisallowAdditionalProperties /\ o.AdditionalProperties = EmptySchema
            /\ (ap.Has = "nil" /\ HasValue(ap.Schema)) =>
                  /\ ~o.DisallowAdditionalProperties
                  /\ o.AdditionalProperties = applySchema(ap.Schema.Value).schema
            /\ (ap.Has = "nil" /\ ap.Schema = EmptyRef) =>
                  ~o.DisallowAdditionalProperties /\ o.AdditionalProperties = EmptySchema
            /\ ap = NoAdditional =>
                  ~o.DisallowAdditionalProperties /\ o.AdditionalProperties = NilSchema
            /\ o.DisallowAdditionalProperties => o.AdditionalProperties = NilSchema

\* an object schema with additionalProperties: false has been normalized
C13_Witness ==
    /\ Applied
    /\ hasObjectType(operation.schema)
    /\ operation.schema.AdditionalProperties.Has = "false"
    /\ built.applied.schema.Object.DisallowAdditionalProperties

\* an object schema whose additionalProperties is a schema has been normalized
C13_WitnessSchemaValue ==
    /\ Applied
    /\ hasObjectType(operation.schema)
    /\ operation.schema.AdditionalProperties = AdditionalSchema(Ref(SNested))
    /\ Len(built.applied.schema.Object.AdditionalProperties.AnyOf) = 2

\* the source schema has a composition keyword, at some nesting level
RECURSIVE HasComposition(_)
HasComposition(s) ==
    \/ Len(s.OneOf) > 0 \/ Len(s.AnyOf) > 0 \/ Len(s.AllOf) > 0
    \/ s.Not # NilRef
    \/ HasValue(s.Items) /\ HasComposition(s.Items.Value)
    \/ \E n \in DOMAIN s.Properties :
          HasValue(s.Properties[n]) /\ HasComposition(s.Properties[n].Value)
    \/ /\ HasValue(s.AdditionalProperties.Schema)
       /\ HasComposition(s.AdditionalProperties.Schema.Value)

\* what the two passes make of a source schema that normalizes
LowerOf(s) == schemaToDraft7Map(applySchema(s).schema).map

\* the map m holds every composition keyword of the source schema s, and of
\* the schemas nested in s, with the branches of the source in their order
RECURSIVE Preserves(_, _)
Preserves(s, m) ==
    LET Keyword(kw, L) ==
            Len(L) > 0 =>
                /\ kw \in DOMAIN m
                /\ Len(m[kw]) = Len(L)
                /\ \A i \in DOMAIN L :
                      /\ HasValue(L[i])
                      /\ m[kw][i] = LowerOf(L[i].Value)
                      /\ Preserves(L[i].Value, m[kw][i])
        ap == s.AdditionalProperties.Schema
    IN  /\ Keyword("oneOf", s.OneOf)
        /\ Keyword("anyOf", s.AnyOf)
        /\ Keyword("allOf", s.AllOf)
        /\ s.Not # NilRef => "not" \in DOMAIN m
        /\ HasValue(s.Not) => Preserves(s.Not.Value, m["not"])
        /\ (HasValue(s.Items) /\ HasComposition(s.Items.Value)) =>
              "items" \in DOMAIN m /\ Preserves(s.Items.Value, m["items"])
        /\ \A n \in DOMAIN s.Properties :
              (HasValue(s.Properties[n]) /\ HasComposition(s.Properties[n].Value)) =>
                  /\ "properties" \in DOMAIN m
                  /\ n \in DOMAIN m["properties"]
                  /\ Preserves(s.Properties[n].Value, m["properties"][n])
        /\ (HasValue(ap) /\ HasComposition(ap.Value)) =>
              /\ "additionalProperties" \in DOMAIN m
              /\ m["additionalProperties"] # JBool(FALSE)
              /\ Preserves(ap.Value, m["additionalProperties"])

\* C14 (as claimed): for every source schema, at every nesting level, each
\* of oneOf/anyOf/allOf with k branches is in the schema produced by
\* applySchema followed by schemaToDraft7Map with exactly k branches in the
\* same order, and a source "not" is in the output as a "not" sub-schema.
C14_CompositionPreservation ==
    Lowered => Preserves(operation.schema, built.lowered.map)

\* C15: a property of an object schema whose reference is non-nil with an
\* empty value is normalized to the empty Schema under the same name, and
\* schemaToDraft7Map emits it as the empty object in "properties".
C15_EmptyPropertyRoundTrip ==
    (Lowered /\ hasObjectType(operation.schema)) =>
        \A n \in DOMAIN operation.schema.Properties :
            operation.schema.Properties[n] = EmptyRef =>
                /\ n \in DOMAIN built.applied.schema.Object.Properties
                /\ built.applied.schema.Object.Properties[n] = EmptySchema
                /\ "properties" \in DOMAIN built.lowered.map
                /\ n \in DOMAIN built.lowered.map["properties"]
                /\ built.lowered.map["properties"][n] = EmptyMap

\* an object schema with a {} property beside a string property was lowered
C15_Witness ==
    /\ Lowered
    /\ hasObjectType(operation.schema)
    /\ DOMAIN operation.schema.Properties = {"id", "note"}
    /\ operation.schema.Properties["id"] = EmptyRef
    /\ operation.schema.Properties["note"] = Ref(SString)
    /\ DOMAIN built.lowered.map["properties"] = {"id", "note"}

(***************************************************************************)
(* The Args builder (src/converter/requestArgs.go): convertParameters and  *)
(* convertRequestBody.  A *ParameterRef, a *RequestBodyRef and a           *)
(* *MediaType are NilRef, EmptyRef (no Value) or Ref(value), as a          *)
(* *SchemaRef is.                                                          *)
(***************************************************************************)
MaxParams == 2

MkParameter(name, in, description, required, deprecated, schema) ==
    [Name |-> name, In |-> in, Description |-> description,
     Required |-> required, Deprecated |-> deprecated, Schema |-> schema]

MkRequestBody(description, required, content) ==
    [Description |-> description, Required |-> required, Content |-> content]

\* a *MediaType with its Schema reference
MediaType(schema) == Ref([Schema |-> schema])

\* an Arg with its Description, which MkArg leaves out
DescribedArg(arg, description) == ("Description" :> description) @@ arg

NilArg == [nil |-> TRUE]

convertParameters(parameters) ==
    LET valid(i) ==
            HasValue(parameters[i]) /\ HasValue(parameters[i].Value.Schema)
        subs == [i \in DOMAIN parameters |->
                    IF valid(i)
                    THEN applySchema(parameters[i].Value.Schema.Value)
                    ELSE ApplyOk(NilSchema)]
        kept == SelectSeq([i \in DOMAIN parameters |-> i], valid)
        argOf(i) ==
            LET param == parameters[i].Value
            IN  DescribedArg(MkArg(param.Name, param.In, param.Required,
                                   param.Deprecated, subs[i].schema, EmptyMap),
                             param.Description)
    IN  IF \E i \in DOMAIN parameters : subs[i].err # ""
        THEN [err |-> "failed to convert schema for parameter", args |-> <<>>]
        ELSE [err |-> "", args |-> [k \in DOMAIN kept |-> argOf(kept[k])]]

\* the content types the loop of convertRequestBody does not skip
UsableContent(requestBody) ==
    {ct \in DOMAIN requestBody.Content :
        /\ HasValue(requestBody.Content[ct])
        /\ HasValue(requestBody.Content[ct].Value.Schema)}

\* convertRequestBody returning the Arg whatever the content
convertRequestBody_AlwaysArg(requestBodyRef) ==
    IF ~HasValue(requestBodyRef) THEN [err |-> "", arg |-> NilArg]
    ELSE
      LET requestBody == requestBodyRef.Value
          usable == UsableContent(requestBody)
          subs == [ct \in usable |->
                      applySchema(requestBody.Content[ct].Value.Schema.Value)]
      IN  IF \E ct \in usable : subs[ct].err # ""
          THEN [err |-> "failed to convert schema for content type", arg |-> NilArg]
          ELSE [err |-> "",
                arg |-> DescribedArg(
                          MkArg("body", "body", requestBody.Required, FALSE,
                                NilSchema, [ct \in usable |-> subs[ct].schema]),
                          requestBody.Description)]

convertRequestBody(requestBodyRef) ==
    IF ~HasValue(requestBodyRef) THEN [err |-> "", arg |-> NilArg]
    ELSE
      LET requestBody == requestBodyRef.Value
          usable == UsableContent(requestBody)
          subs == [ct \in usable |->
                      applySchema(requestBody.Content[ct].Value.Schema.Value)]
          validContent == usable # {}
      IN  IF \E ct \in usable : subs[ct].err # ""
          THEN [err |-> "failed to convert schema for content type", arg |-> NilArg]
          ELSE IF validContent
          THEN [err |-> "",
                arg |-> DescribedArg(
                          MkArg("body", "body", requestBody.Required, FALSE,
                                NilSchema, [ct \in usable |-> subs[ct].schema]),
                          requestBody.Description)]
          ELSE [err |-> "", arg |-> NilArg]

\* The Args of a tool: the Args of the parameters followed by the body Arg,
\* if there is one.
operationArgs(params, body) ==
    IF body.arg = NilArg THEN params.args ELSE Append(params.args, body.arg)

(***************************************************************************)
(* SpecArgs: the Args of one operation are built from its parameters and   *)
(* its request body, and the input schema is emitted from them.            *)
(***************************************************************************)
SDescribed == MkSource("", "Free text", TypeOf(<<"string">>), FALSE)

STodo == MkSource("Todo", "", TypeOf(<<"object">>), FALSE)

ParameterRefs ==
    {NilRef, EmptyRef} \cup
    {Ref(param) : param \in
        {MkParameter("id", "path", "The id", TRUE, FALSE, Ref(SString)),
         MkParameter("q", "query", "", FALSE, FALSE, Ref(SDescribed)),
         MkParameter("q", "query", "Search text", TRUE, FALSE, Ref(SDescribed)),
         MkParameter("trace", "header", "Trace id", FALSE, TRUE, Ref(SString)),
         MkParameter("session", "cookie", "", TRUE, FALSE, Ref(SString)),
         MkParameter("body", "query", "Raw body", TRUE, FALSE, Ref(SString)),
         MkParameter("skip", "query", "", FALSE, FALSE, EmptyRef),
         MkParameter("bad", "query", "", FALSE, FALSE, Ref(SFailing))}}

MediaTypes ==
    {NilRef, MediaType(NilRef), MediaType(Ref(SString)), MediaType(Ref(STodo)),
     MediaType(Ref(SFailing))}

ContentMaps == UNION {[K -> MediaTypes] : K \in SUBSET ContentTypeNames}

RequestBodyRefs ==
    {NilRef, EmptyRef} \cup
    {Ref(MkRequestBody(description, required, content)) :
        description \in {"", "The todo"}, required \in BOOLEAN,
        content \in ContentMaps}

InitArgs ==
    /\ SchemaIdle
    /\ GenIdle
    /\ operation \in
          {[kind |-> "operation", parameters |-> ps, requestBody |-> rb] :
              ps \in SeqsUpTo(ParameterRefs, MaxParams), rb \in RequestBodyRefs}
    /\ built = [stage |-> "start"]

CallConvertParameters ==
    /\ built.stage = "start"
    /\ built' = [stage |-> "params",
                 params |-> convertParameters(operation.parameters)]
    /\ UNCHANGED operation
    /\ UNCHANGED schemaVars
    /\ UNCHANGED genVars

CallConvertRequestBody ==
    /\ built.stage = "params"
    /\ built.params.err = ""
    /\ built' = [stage |-> "body", params |-> built.params,
                 body |-> convertRequestBody(operation.requestBody)]
    /\ UNCHANGED operation
    /\ UNCHANGED schemaVars
    /\ UNCHANGED genVars

CallGenerateInputSchema ==
    /\ built.stage = "body"
    /\ built.body.err = ""
    /\ LET as == operationArgs(built.params, built.body)
       IN  \E orders \in MapOrders(as) :
              built' = [stage |-> "schema", params |-> built.params,
                        body |-> built.body, args |-> as,
                        schema |-> GenerateJSONSchemaDraft7(as, orders)]
    /\ UNCHANGED operation
    /\ UNCHANGED schemaVars
    /\ UNCHANGED genVars

NextArgs ==
    \/ CallConvertParameters
    \/ CallConvertRequestBody
    \/ CallGenerateInputSchema

SpecArgs == InitArgs /\ [][NextArgs]_vars

\* the input schema of the operation has been emitted
Emitted == built.stage = "schema" /\ built.schema.err = ""

\* what the emitter lowers for an Arg before it looks at the Description:
\* the schema of a parameter or of the only content type; the oneOf wrapper
\* of several content types has no description
LoweredOf(arg) ==
    IF arg.Source # "body" THEN schemaToDraft7Map(arg.Schema).map
    ELSE IF Cardinality(DOMAIN arg.ContentTypes) = 1
    THEN schemaToDraft7Map(
            arg.ContentTypes[CHOOSE ct \in DOMAIN arg.ContentTypes : TRUE]).map
    ELSE EmptyMap

\* C11 (as claimed): for every non-deprecated Arg with a non-empty
\* Description whose lowered schema has no description, the property
\* GenerateJSONSchemaDraft7 emits for it has "description" equal to the
\* Arg's Description.
C11_DescriptionFallback ==
    Emitted =>
        \A i \in DOMAIN built.args :
            LET arg == built.args[i]
                props == OutProperties(built.schema)
            IN  ( /\ ~arg.Deprecated
                  /\ arg.Description # ""
                  /\ "description" \notin DOMAIN LoweredOf(arg) )
                => /\ arg.Name \in DOMAIN props
                   /\ "description" \in DOMAIN props[arg.Name]
                   /\ props[arg.Name]["description"] = arg.Description

SourceRank(source) ==
    CASE source = "path" -> 1
      [] source = "query" -> 2
      [] source = "header" -> 3
      [] source = "cookie" -> 4
      [] source = "body" -> 5

\* C16 (as claimed): the Args of an operation are its path parameters, then
\* its query, header and cookie parameters, each group in input order, and
\* last at most one body Arg, for every input order of the parameters.
C16_ArgsOrdering ==
    built.stage = "schema" =>
        LET as == built.args
            InGroup(source) ==
                SelectSeq(operation.parameters,
                          LAMBDA r : HasValue(r) /\ r.Value.In = source)
        IN  /\ \A i, j \in DOMAIN as :
                  i < j => SourceRank(as[i].Source) <= SourceRank(as[j].Source)
            /\ Cardinality({i \in DOMAIN as : as[i].Source = "body"}) <= 1
            /\ \A source \in {"path", "query", "header", "cookie"} :
                  SelectSeq(as, LAMBDA a : a.Source = source)
                      = convertParameters(InGroup(source)).args

\* the content types of the request body that have a schema
Usable ==
    IF HasValue(operation.requestBody)
    THEN UsableContent(operation.requestBody.Value) ELSE {}

\* what convertRequestBody returns, as far as both readings of C17 agree
BodyArgShape ==
    /\ (built.body.arg # NilArg) <=> (Usable # {})
    /\ built.body.arg # NilArg =>
          /\ DOMAIN built.body.arg.ContentTypes = Usable
          /\ built.body.arg.Required = operation.requestBody.Value.Required

\* C17 (as claimed): convertRequestBody returns a body Arg iff a content
\* type has a schema, with one ContentTypes entry per such content type and
\* the Required flag of the request body; when no content type is usable,
\* no Arg is returned and the input schema has no "body" property.
C17_BodyArgProduction ==
    Emitted =>
        /\ BodyArgShape
        /\ Usable = {} => "body" \notin DOMAIN OutProperties(built.schema)

\* C17 (amended): as above when convertRequestBody returns no error, but
\* with no usable content type the input schema may still have a property
\* "body": then it is the schema of a parameter that is named "body".
C17_BodyArgProductionOwnProperty ==
    /\ (built.stage \in {"body", "schema"} /\ built.body.err = "") => BodyArgShape
    /\ (Emitted /\ Usable = {}) =>
          /\ \A i \in DOMAIN built.args : built.args[i].Source # "body"
          /\ "body" \in DOMAIN OutProperties(built.schema) =>
                \E i \in DOMAIN built.args :
                    /\ built.args[i].Name = "body"
                    /\ ~built.args[i].Deprecated
                    /\ OutProperties(built.schema)["body"] = LoweredOf(built.args[i])

\* a request body with one usable and one schema-less content type gave an
\* Arg with one content type, and the schema was emitted
C17_Witness ==
    /\ Emitted
    /\ HasValue(operation.requestBody)
    /\ DOMAIN operation.requestBody.Value.Content = ContentTypeNames
    /\ Usable = {"application/json"}
    /\ built.body.arg # NilArg
    /\ "body" \in DOMAIN OutProperties(built.schema)

\* a request body without usable content type beside a parameter "body"
C17_WitnessNoUsableContent ==
    /\ Emitted
    /\ HasValue(operation.requestBody)
    /\ DOMAIN operation.requestBody.Value.Content # {}
    /\ Usable = {}
    /\ built.body.arg = NilArg
    /\ "body" \in DOMAIN OutProperties(built.schema)

(***************************************************************************)
(* The response-template renderer (src/unnamed/part_002):                  *)
(* createResponseTemplates and assignSuffixes.  A status code is the       *)
(* sequence of its characters, so that strconv.Atoi and the comparison of  *)
(* strings are computed on it; a Suffix is the code point of its single    *)
(* character.                                                              *)
(***************************************************************************)
LetterA == 65

Digits == <<"0", "1", "2", "3", "4", "5", "6", "7", "8", "9">>

IsDigit(c) == \E d \in DOMAIN Digits : Digits[d] = c

DigitValue(c) == (CHOOSE d \in DOMAIN Digits : Digits[d] = c) - 1

\* the character U+0060, written by its name
Backtick == "GRAVE ACCENT"

\* the byte of a character, for the characters of the strings used
CharCode(c) ==
    CASE c = "\"" -> 34
      [] c = "'" -> 39
      [] c = "+" -> 43
      [] c = "-" -> 45
      [] IsDigit(c) -> 48 + DigitValue(c)
      [] c = "X" -> 88
      [] c = "\\" -> 92
      [] c = Backtick -> 96
      [] c = "a" -> 97
      [] c = "d" -> 100
      [] c = "e" -> 101
      [] c = "f" -> 102
      [] c = "l" -> 108
      [] c = "t" -> 116
      [] c = "u" -> 117

RECURSIVE DigitsValue(_)
DigitsValue(ds) ==
    IF ds = <<>> THEN 0
    ELSE 10 * DigitsValue(SubSeq(ds, 1, Len(ds) - 1)) + DigitValue(ds[Len(ds)])

\* strconv.Atoi: an optional sign and decimal digits; 0 and an error for
\* anything else (the codes used are far from the range of int)
Atoi(s) ==
    LET signed == Len(s) > 0 /\ s[1] \in {"+", "-"}
        ds == IF signed THEN Tail(s) ELSE s
    IN  IF Len(ds) = 0 \/ \E i \in DOMAIN ds : ~IsDigit(ds[i])
        THEN [err |-> TRUE, value |-> 0]
        ELSE [err |-> FALSE,
              value |-> IF signed /\ s[1] = "-" THEN 0 - DigitsValue(ds)
                        ELSE DigitsValue(ds)]

\* a < b on Go strings
RECURSIVE StringLess(_, _)
StringLess(a, b) ==
    IF a = <<>> THEN b # <<>>
    ELSE IF b = <<>> THEN FALSE
    ELSE IF a[1] = b[1] THEN StringLess(Tail(a), Tail(b))
    ELSE CharCode(a[1]) < CharCode(b[1])

\* the comparison with every code compared as a string
less_Lexicographic(codeI, codeJ) == StringLess(codeI, codeJ)

\* the less function handed to sort.SliceStable (part_002:27-37)
less(codeI, codeJ) ==
    LET i == Atoi(codeI)
        j == Atoi(codeJ)
    IN  IF ~i.err /\ ~j.err THEN i.value < j.value
        ELSE IF i.err /\ j.err THEN StringLess(codeI, codeJ)
        ELSE ~i.err

\* sort.SliceStable over the keys of the responses map.  The keys used are
\* distinct strings with distinct values, so less orders them totally and
\* the result does not depend on the order the map was ranged over in.
RECURSIVE SortCodes(_)
SortCodes(codes) ==
    IF codes = {} THEN <<>>
    ELSE LET first == CHOOSE c \in codes : \A d \in codes \ {c} : ~less(d, c)
         IN  <<first>> \o SortCodes(codes \ {first})

\* the place of a content type in the order of sort.Strings
ContentTypeRank(contentType) ==
    CASE contentType = "application/json" -> 1
      [] contentType = "application/xml" -> 2
      [] contentType = "application/yaml" -> 3
      [] contentType = "text/plain" -> 4

RECURSIVE SortContentTypes(_)
SortContentTypes(S) ==
    IF S = {} THEN <<>>
    ELSE LET first == CHOOSE x \in S :
                        \A y \in S : ContentTypeRank(x) <= ContentTypeRank(y)
         IN  <<first>> \o SortContentTypes(S \ {first})

\* a ResponseTemplate before it gets its suffix; of PrependBody, the status
\* code and content type lines
MkResponseTemplate(code, statusCode, contentType) ==
    [PrependBody |-> [code |-> code, contentType |-> contentType],
     StatusCode |-> statusCode, ContentType |-> contentType, Suffix |-> 0]

assignSuffixes(responses) ==
    [i \in DOMAIN responses |-> [responses[i] EXCEPT !.Suffix = LetterA + (i - 1)]]

\* the templates of one status code (part_002:40-81)
TemplatesOf(responses, code) ==
    LET responseRef == responses[code]
        content == responseRef.Value.Content
        contentTypes == SortContentTypes(DOMAIN content)
        usable == SelectSeq(contentTypes,
                            LAMBDA ct : /\ HasValue(content[ct])
                                        /\ HasValue(content[ct].Value.Schema))
    IN  IF ~HasValue(responseRef) THEN <<>>
        ELSE [k \in DOMAIN usable |->
                MkResponseTemplate(code, Atoi(code).value, usable[k])]

RECURSIVE TemplatesFrom(_, _, _)
TemplatesFrom(responses, sortedCodes, i) ==
    IF i > Len(sortedCodes) THEN <<>>
    ELSE TemplatesOf(responses, sortedCodes[i])
         \o TemplatesFrom(responses, sortedCodes, i + 1)

NoResponses == [nil |-> TRUE]

createResponseTemplates(op) ==
    IF op.responses = NoResponses THEN <<>>
    ELSE assignSuffixes(
            TemplatesFrom(op.responses, SortCodes(DOMAIN op.responses), 1))

(***************************************************************************)
(* SpecResponses: createResponseTemplates applied to one operation.        *)
(***************************************************************************)
StatusCodes ==
    {<<"2", "0", "0">>, <<"2", "0", "1">>, <<"4", "0", "4">>, <<"5", "0", "0">>,
     <<"2", "X", "X">>, <<"4", "X", "X">>,
     <<"d", "e", "f", "a", "u", "l", "t">>}

ResponseContentTypes ==
    {"application/json", "application/xml", "application/yaml", "text/plain"}

FullContent == [ct \in ResponseContentTypes |-> MediaType(Ref(STodo))]

\* the Content maps of a response: every content type with a schema; one,
\* two or three of them; some without schema or without media type; none
ResponseContents ==
    {FullContent,
     [ct \in {"application/json"} |-> MediaType(Ref(STodo))],
     [ct \in {"application/json", "text/plain"} |-> MediaType(Ref(SString))],
     [ct \in ResponseContentTypes \ {"text/plain"} |-> MediaType(Ref(STodo))],
     [ct \in {"application/json", "application/xml"} |->
         IF ct = "application/json" THEN MediaType(NilRef)
         ELSE MediaType(Ref(STodo))],
     [ct \in {"application/json", "application/xml", "text/plain"} |->
         IF ct = "application/xml" THEN NilRef ELSE MediaType(Ref(SString))],
     EmptyMap}

Response(content) == Ref([Description |-> "", Content |-> content])

\* the responses of an operation: all with the same Content or without
\* Value, or one of them with a Content of its own beside full ones
ResponseMaps ==
    UNION {[K -> {EmptyRef, Response(content)}] :
              K \in SUBSET StatusCodes, content \in ResponseContents}
    \cup {[code \in K |-> IF code = c THEN Response(content)
                          ELSE Response(FullContent)] :
             K \in SUBSET StatusCodes, c \in StatusCodes,
             content \in ResponseContents}

InitResponses ==
    /\ SchemaIdle
    /\ GenIdle
    /\ operation \in
          {[kind |-> "responses", responses |-> r] :
              r \in ResponseMaps \cup {NoResponses}}
    /\ built = [stage |-> "start"]

CallCreateResponseTemplates ==
    /\ built.stage = "start"
    /\ built' = [stage |-> "templates",
                 templates |-> createResponseTemplates(operation)]
    /\ UNCHANGED operation
    /\ UNCHANGED schemaVars
    /\ UNCHANGED genVars

NextResponses == CallCreateResponseTemplates

SpecResponses == InitResponses /\ [][NextResponses]_vars

\* createResponseTemplates has returned
Rendered == built.stage = "templates"

\* the status code a template was made for
CodeOf(template) == template.PrependBody.code

\* C18: the templates of numeric status codes come first, in ascending
\* numeric order, then those of non-numeric codes in lexicographic order of
\* the code; templates of one status code are in lexicographic order of
\* the content type; a non-numeric code carries StatusCode 0.
C18_ResponseTemplateOrdering ==
    Rendered =>
        LET ts == built.templates
        IN  /\ \A i, j \in DOMAIN ts :
                  i < j =>
                     LET a == Atoi(CodeOf(ts[i]))
                         b == Atoi(CodeOf(ts[j]))
                     IN  /\ ~b.err => ~a.err /\ a.value <= b.value
                         /\ (a.err /\ b.err) =>
                               \/ CodeOf(ts[i]) = CodeOf(ts[j])
                               \/ StringLess(CodeOf(ts[i]), CodeOf(ts[j]))
                         /\ CodeOf(ts[i]) = CodeOf(ts[j]) =>
                               ContentTypeRank(ts[i].ContentType)
                                  < ContentTypeRank(ts[j].ContentType)
            /\ \A i \in DOMAIN ts :
                  Atoi(CodeOf(ts[i])).err => ts[i].StatusCode = 0

\* templates for 500, 4XX and default, two content types each, were made
C18_Witness ==
    /\ Rendered
    /\ {CodeOf(built.templates[i]) : i \in DOMAIN built.templates}
          = {<<"5", "0", "0">>, <<"4", "X", "X">>,
             <<"d", "e", "f", "a", "u", "l", "t">>}
    /\ Len(built.templates) = 6

IsUpperLetter(suffix) == suffix \in LetterA..(LetterA + 25)

\* C19 (as claimed): the i-th template (from 0) of every operation has the
\* i-th uppercase letter as its suffix: the suffixes are pairwise distinct
\* and run A, B, C, ... without gap, also when pairs without schema are
\* skipped.
C19_SuffixAssignment ==
    Rendered =>
        LET ts == built.templates
        IN  /\ \A i \in DOMAIN ts :
                  ts[i].Suffix = LetterA + (i - 1) /\ IsUpperLetter(ts[i].Suffix)
            /\ \A i, j \in DOMAIN ts : i # j => ts[i].Suffix # ts[j].Suffix

\* C20 (as claimed): with 27 or more templates createResponseTemplates
\* fails or wraps: every suffix it assigns is an uppercase letter A..Z.
C20_SuffixOverflow ==
    Rendered =>
        \A i \in DOMAIN built.templates : IsUpperLetter(built.templates[i].Suffix)

(***************************************************************************)
(* The Markdown of a response template (src/unnamed/part_002:62-77 and     *)
(* 95-288): the text createResponseTemplates builds for one status code    *)
(* and content type.  A string taken from the OpenAPI document is the      *)
(* sequence of its characters (Str), the text of a format string and the   *)
(* words of the type vocabulary are literals (Lit, Words).  The text is    *)
(* the sequence of the lines written, each with the number of two-space    *)
(* units it is indented by.                                                *)
(***************************************************************************)
Lit(text) == [lit |-> text]

Str(chars) == [str |-> chars]

Words(ws) == [words |-> ws]

Line(depth, text) == [depth |-> depth, text |-> text]

\* fieldName == ""
NoField == Lit("")

\* a nil interface value (Default, Example)
NilValue == [nil |-> TRUE]

\* a string held in an interface value
StringValue(chars) == [nil |-> FALSE, chars |-> chars]

\* an openapi3.Schema with the fields the renderer reads
MkResponseSchema(desc, type, format, pattern, default, example, enum) ==
    [Format |-> format, MinLength |-> 0, MaxLength |-> 0, Pattern |-> pattern,
     Default |-> default, Example |-> example, Enum |-> enum]
    @@ [MkSource("", "", type, FALSE) EXCEPT !.Description = desc]

\* strings.ReplaceAll of the backtick by the single quote
ReplaceBackticks(str) ==
    [i \in DOMAIN str |-> IF str[i] = Backtick THEN "'" ELSE str[i]]

\* json.Marshal of a string: quoted, with quote and backslash escaped
RECURSIVE JSONEscape(_)
JSONEscape(chars) ==
    IF chars = <<>> THEN <<>>
    ELSE (IF chars[1] \in {"\"", "\\"} THEN <<"\\", chars[1]>> ELSE <<chars[1]>>)
         \o JSONEscape(Tail(chars))

JSONMarshal(value) == <<"\"">> \o JSONEscape(value.chars) \o <<"\"">>

\* strings.Trim(str, "\""): every leading and trailing quote removed
RECURSIVE TrimQuotes(_)
TrimQuotes(str) ==
    IF str # <<>> /\ str[1] = "\"" THEN TrimQuotes(Tail(str))
    ELSE IF str # <<>> /\ str[Len(str)] = "\""
    THEN TrimQuotes(SubSeq(str, 1, Len(str) - 1))
    ELSE str

\* isArray and isObject of the renderer (part_002:277-288)
isArray(schema) ==
    /\ schema.Type # NoType
    /\ Len(schema.Type.elems) > 0
    /\ schema.Type.elems[1] = "array"

isObject(schema) ==
    /\ schema.Type # NoType
    /\ Len(schema.Type.elems) > 0
    /\ schema.Type.elems[1] = "object"
    /\ DOMAIN schema.Properties # {}

\* formatForGoRawString (part_002:214-231)
formatForGoRawString(schema, value) ==
    LET str == JSONMarshal(value)
        isString == /\ schema.Type # NoType
                    /\ Len(schema.Type.elems) > 0
                    /\ schema.Type.elems[1] = "string"
        unquoted == IF /\ isString
                       /\ str[1] = "\""
                       /\ str[Len(str)] = "\""
                    THEN TrimQuotes(str) ELSE str
    IN  ReplaceBackticks(unquoted)

\* the values of an enum, each in single quotes, joined by ", "
RECURSIVE EnumText(_, _, _)
EnumText(schema, enum, i) ==
    IF i > Len(enum) THEN <<>>
    ELSE (IF i > 1 THEN <<Lit(", ")>> ELSE <<>>)
         \o <<Lit("'"), Str(formatForGoRawString(schema, enum[i])), Lit("'")>>
         \o EnumText(schema, enum, i + 1)

\* writeSchemaDetails (part_002:208-274): one line per detail
writeSchemaDetails(schema, indent) ==
    LET detail(text) == <<Line(indent + 1, <<Lit("- ")>> \o text \o <<Lit("\n")>>)>>
    IN  (IF schema.Pattern # <<>>
         THEN detail(<<Lit("Pattern: '"), Str(ReplaceBackticks(schema.Pattern)),
                       Lit("'")>>)
         ELSE <<>>)
        \o (IF schema.Default # NilValue
            THEN detail(<<Lit("Default: '"),
                          Str(formatForGoRawString(schema, schema.Default)),
                          Lit("'")>>)
            ELSE <<>>)
        \o (IF schema.Example # NilValue
            THEN detail(<<Lit("Example: '"),
                          Str(formatForGoRawString(schema, schema.Example)),
                          Lit("'")>>)
            ELSE <<>>)
        \o (IF Len(schema.Enum) > 0
            THEN detail(<<Lit("Enum: [")>> \o EnumText(schema, schema.Enum, 1)
                        \o <<Lit("]")>>)
            ELSE <<>>)

\* typeDesc (part_002:110-123)
TypeDesc(schema) ==
    LET typeStrs == (IF schema.Type # NoType THEN schema.Type.elems ELSE <<>>)
                    \o (IF schema.Format # "" THEN <<schema.Format>> ELSE <<>>)
    IN  IF typeStrs # <<>> THEN Words(typeStrs)
        ELSE IF \/ Len(schema.OneOf) > 0 \/ Len(schema.AnyOf) > 0
                \/ Len(schema.AllOf) > 0 \/ schema.Not # NilRef
        THEN Words(<<"Combinator">>)
        ELSE Words(<<"unknown">>)

\* the introductory line of a schema (part_002:128-143)
IntroLine(schema, indent, fieldName) ==
    LET type == <<Lit(" (Type: "), TypeDesc(schema), Lit("):\n")>>
    IN  Line(indent,
             IF fieldName # NoField
             THEN IF schema.Description = <<>>
                  THEN <<Lit("- **"), fieldName, Lit("**")>> \o type
                  ELSE <<Lit("- **"), fieldName, Lit("**: "),
                         Str(schema.Description)>> \o type
             ELSE IF schema.Description = <<>>
                  THEN <<Lit("- Structure")>> \o type
                  ELSE <<Lit("- "), Str(schema.Description)>> \o type)

\* the keys of a map in the order a range statement visits them under the
\* iteration order `order`, a ranking of the names
RECURSIVE RangeOrder(_, _)
RangeOrder(names, order) ==
    IF names = {} THEN <<>>
    ELSE LET first == CHOOSE n \in names : \A m \in names : order[n] <= order[m]
         IN  <<first>> \o RangeOrder(names \ {first}, order)

\* writeSchemaMarkdown (part_002:98-205).  `order` is the order in which
\* the build ranges over a Properties map, the same at every node.
RECURSIVE writeSchemaMarkdown(_, _, _, _)
writeSchemaMarkdown(schema, indent, fieldName, order) ==
    LET propNames == RangeOrder(DOMAIN schema.Properties, order)
        RECURSIVE Props(_)
        Props(i) ==
            IF i > Len(propNames) THEN <<>>
            ELSE (IF HasValue(schema.Properties[propNames[i]])
                  THEN writeSchemaMarkdown(schema.Properties[propNames[i]].Value,
                                           indent + 1, Str(propNames[i]), order)
                  ELSE <<>>)
                 \o Props(i + 1)
        RECURSIVE Options(_, _, _)
        Options(subs, label, i) ==
            IF i > Len(subs) THEN <<>>
            ELSE (IF HasValue(subs[i])
                  THEN writeSchemaMarkdown(subs[i].Value, indent + 2,
                                           Words(<<label, ToString(i)>>), order)
                  ELSE <<>>)
                 \o Options(subs, label, i + 1)
        Combinator(subs, title, label) ==
            IF Len(subs) > 0
            THEN <<Line(indent + 1, <<Lit(title)>>)>> \o Options(subs, label, 1)
            ELSE <<>>
        ap == schema.AdditionalProperties
    IN  <<IntroLine(schema, indent, fieldName)>>
        \o writeSchemaDetails(schema, indent + 1)
        \o (IF isObject(schema) THEN Props(1) ELSE <<>>)
        \o (IF isArray(schema) /\ HasValue(schema.Items)
            THEN writeSchemaMarkdown(schema.Items.Value, indent + 1,
                                     Lit("Items"), order)
            ELSE <<>>)
        \o Combinator(schema.OneOf, "- **One Of the following structures**:\n",
                      "Option")
        \o Combinator(schema.AnyOf, "- **Any Of the following structures**:\n",
                      "Option")
        \o Combinator(schema.AllOf,
                      "- **Combines All Of the following structures**:\n", "Part")
        \o (IF HasValue(schema.Not)
            THEN <<Line(indent + 1,
                        <<Lit("- **Not**: Cannot be the following structure:\n")>>)>>
                 \o writeSchemaMarkdown(schema.Not.Value, indent + 2,
                                        Lit("Forbidden Structure"), order)
            ELSE <<>>)
        \o (IF isObject(schema) /\ HasValue(ap.Schema)
            THEN <<Line(indent + 1, <<Lit("- **Additional Properties**:\n")>>)>>
                 \o writeSchemaMarkdown(ap.Schema.Value, indent + 2,
                                        Lit("property value"), order)
            ELSE IF isObject(schema) /\ ap.Has = "true"
            THEN <<Line(indent + 1, <<Lit("- **Allows Additional Properties**\n")>>)>>
            ELSE <<>>)

\* PrependBody of the template of one status code and content type
\* (part_002:62-77)
PrependBody(code, contentType, description, schema, order) ==
    <<Line(0, <<Lit("# API Response Information\n\n")>>),
      Line(0, <<Lit("Below is the response template for this API endpoint.\n\n")>>),
      Line(0, <<Lit("The template shows a possible response, including its status code and content type, to help you understand and generate correct outputs.\n\n")>>),
      Line(0, <<Lit("**Status Code:** "), Str(code), Lit("\n\n")>>),
      Line(0, <<Lit("**Content-Type:** "), Str(contentType), Lit("\n\n")>>)>>
    \o (IF description # <<>>
        THEN <<Line(0, <<Lit("> "), Str(description), Lit("\n\n")>>)>>
        ELSE <<>>)
    \o <<Line(0, <<Lit("## Response Structure\n\n")>>)>>
    \o writeSchemaMarkdown(schema, 0, NoField, order)

(***************************************************************************)
(* SpecMarkdown: the PrependBody of one response template written for one  *)
(* status code, content type and response schema.                          *)
(***************************************************************************)
PropertyNames == {<<"a">>, <<"d", "u", "e">>, <<"t", Backtick>>}

\* the orders a build can range over a Properties map in
RangeOrders ==
    {order \in [PropertyNames -> 1..Cardinality(PropertyNames)] :
        \A n, m \in PropertyNames : n # m => order[n] # order[m]}

Texts == {<<>>, <<"a">>, <<"a", Backtick, "d", Backtick>>}

Values == {NilValue, StringValue(<<"a">>), StringValue(<<Backtick, "\"", "a">>)}

\* string schemas with their details
ResponseLeaves ==
    {MkResponseSchema(desc, TypeOf(<<"string">>), "", pattern, default,
                      NilValue, enum) :
        desc \in Texts, pattern \in {<<>>, <<Backtick, "a">>},
        default \in Values,
        enum \in {<<>>, <<StringValue(<<Backtick>>), StringValue(<<"a">>)>>}}

RPlain == MkResponseSchema(<<>>, TypeOf(<<"string">>), "", <<>>, NilValue,
                           NilValue, <<>>)

RExample == MkResponseSchema(<<"a">>, TypeOf(<<"integer">>), "int64", <<>>,
                             NilValue, StringValue(<<Backtick, "a">>), <<>>)

\* an object with two properties, to sit inside another schema
RNested ==
    [MkResponseSchema(<<>>, TypeOf(<<"object">>), "", <<>>, NilValue,
                      NilValue, <<>>)
       EXCEPT !.Properties = [n \in {<<"d", "u", "e">>, <<"a">>} |-> Ref(RPlain)]]

ResponsePropertyMaps ==
    UNION {[K -> {EmptyRef, Ref(RPlain), Ref(RNested)}] :
              K \in SUBSET PropertyNames}

ResponseObjects ==
    {[MkResponseSchema(<<>>, type, "", <<>>, NilValue, NilValue, <<>>)
        EXCEPT !.Properties = props, !.AdditionalProperties = ap] :
        type \in {NoType, TypeOf(<<"object">>)},
        props \in ResponsePropertyMaps,
        ap \in {NoAdditional, AdditionalBool(TRUE), AdditionalSchema(Ref(RPlain))}}

ResponseCompositions ==
    {[MkResponseSchema(<<>>, type, "", <<>>, NilValue, NilValue, <<>>)
        EXCEPT !.Items = items, !.OneOf = o, !.AllOf = l, !.Not = n] :
        type \in {NoType, TypeOf(<<"array">>)},
        items \in {NilRef, Ref(RNested)},
        o \in {<<>>, <<Ref(RNested), Ref(RExample)>>},
        l \in {<<>>, <<EmptyRef, Ref(RPlain)>>},
        n \in {NilRef, Ref(RNested)}}

ResponseSchemas == ResponseLeaves \cup ResponseObjects \cup ResponseCompositions

\* the keys of Content: media type names
ContentTypeTexts == {<<"a">>, <<"t", Backtick>>}

InitMarkdown ==
    /\ SchemaIdle
    /\ GenIdle
    /\ operation \in
          {[kind |-> "markdown", code |-> code, contentType |-> ct,
            description |-> d, schema |-> schema] :
              code \in {<<"2", "0", "0">>}, ct \in ContentTypeTexts,
              d \in {<<>>, <<"a">>}, schema \in ResponseSchemas}
          \cup {[kind |-> "markdown", code |-> <<"d", Backtick>>,
                 contentType |-> <<"a">>, description |-> d, schema |-> RPlain] :
                   d \in Texts}
    /\ built = [stage |-> "start"]

\* the body of the loop over content types, for one of them
WritePrependBody ==
    /\ built.stage = "start"
    /\ \E order \in RangeOrders :
          built' = [stage |-> "written",
                    body |-> PrependBody(operation.code, operation.contentType,
                                         operation.description, operation.schema,
                                         order)]
    /\ UNCHANGED operation
    /\ UNCHANGED schemaVars
    /\ UNCHANGED genVars

NextMarkdown == WritePrependBody

SpecMarkdown == InitMarkdown /\ [][NextMarkdown]_vars

\* the text has been written
Written == built.stage = "written"

\* the introductory line of an object property
IsPropertyLine(line) ==
    /\ Len(line.text) >= 2
    /\ line.text[1] = Lit("- **")
    /\ "str" \in DOMAIN line.text[2]

\* lines i < j are written for children of the same node: they are equally
\* deep and no line between them is less deep
Siblings(body, i, j) ==
    /\ i < j
    /\ body[i].depth = body[j].depth
    /\ \A k \in (i + 1)..(j - 1) : body[k].depth >= body[i].depth

\* C21 (as claimed): the lines for the properties of every object node are
\* written in lexicographic order of the property name.
C21_MarkdownPropertyOrder ==
    Written =>
        \A i, j \in DOMAIN built.body :
            /\ Siblings(built.body, i, j)
            /\ IsPropertyLine(built.body[i])
            /\ IsPropertyLine(built.body[j])
            => StringLess(built.body[i].text[2].str, built.body[j].text[2].str)

HasBacktick(piece) ==
    "str" \in DOMAIN piece /\ \E k \in DOMAIN piece.str : piece.str[k] = Backtick

\* C28 (as claimed): the PrependBody of a response template holds no
\* backtick, whatever the descriptions, property names, patterns, defaults,
\* examples, enum values, status code and content type are.
C28_RawStringSafety ==
    Written =>
        \A i \in DOMAIN built.body :
            \A k \in DOMAIN built.body[i].text : ~HasBacktick(built.body[i].text[k])

(***************************************************************************)
(* Further properties of the runs of the generator (Spec).                 *)
(***************************************************************************)
\* the last step went through writeFileContent and returned no error
StepReturned == last.op \in {"tool", "server", "client"}

\* C23 (as claimed): when the target file exists and reading it fails,
\* GenerateToolFiles and writeFileContent return an error and do not write
\* the file: no step over such a target returns without error.
C23_ReadErrorPropagation ==
    StepReturned => ~IsNoRead(last.before)

\* the names of the symbols a per-tool file defines
DefinedSymbols(file) ==
    {file.decls[i].name : i \in DOMAIN file.decls}
    \cup {file.consts[i].name : i \in DOMAIN file.consts}

\* the string the factory of a per-tool file hands to
\* mcp.NewToolWithRawSchema as the name of the tool (tool.templ:13)
FactoryToolName(file) == file.decls[1].body[3]

\* C24 (as claimed): the tool name the factory of the emitted per-tool file
\* passes on, and the base of every symbol the file defines, is Tool.Name
\* unchanged, also when it starts with a lowercase letter.
C24_VerbatimToolName ==
    last.op = "tool" =>
        LET name == NameString(last.tool.Name)
            file == last.content
        IN  /\ FactoryToolName(file) = name
            /\ DefinedSymbols(file) =
                  {"New" \o name \o "MCPTool", name \o "Handler",
                   name \o "InputSchema"}
                  \cup {name \o "ResponseTemplate_" \o last.tool.Responses[i].Suffix :
                           i \in DOMAIN last.tool.Responses}

\* the per-tool file GenerateToolFiles emits for a tool into an empty
\* directory
FreshToolFile(tool) ==
    ToolFileContent(tool, [p \in {ToolFilePath(tool)} |-> Missing]).file

\* C29 (as claimed): the constructor and the handler that server.go names
\* for each tool, in the order of the MCPConfig, are symbols the per-tool
\* file of that tool defines, also for names starting with a lowercase
\* letter.
C29_RegistrationConsistency ==
    last.op = "server" =>
        /\ Len(last.content.tools) = Len(config.Tools)
        /\ \A i \in DOMAIN config.Tools :
              LET file == FreshToolFile(config.Tools[i])
                  entry == last.content.tools[i]
              IN  /\ entry.constructor = "mcptools." \o file.decls[1].name
                  /\ entry.handler = "mcptools." \o file.decls[2].name

(***************************************************************************)
(* SpecRegenerate: the runs of the go/ast build for one tool, over a wider *)
(* choice of files a user may have left at the path of the tool's file.    *)
(***************************************************************************)
\* files of an earlier generation that a user changed: the import of fmt
\* replaced by one of os (the completed handler no longer uses fmt), an
\* import under a second name, and a function of the handler's name with
\* another first parameter type, with another second result type, or with
\* a receiver
HandEditedFiles(tool) ==
    LET data == ToolTemplateData(tool)
        handlerName == data.ToolHandlerName
        file(imports, handler) ==
            GoFile("mcptools", imports, <<>>, <<TemplateDecls(data)[1], handler>>)
        completed ==
            FuncDecl(handlerName, FALSE, HandlerParams, TRUE, HandlerResults,
                     UserBody)
    IN  { file(<<Import("", "context"), Import("", "os"),
                 Import("", "github.com/mark3labs/mcp-go/mcp")>>, completed),
          file(requiredImports \o <<Import("", "os"), Import("myos", "os")>>,
               completed),
          file(requiredImports,
               FuncDecl(handlerName, FALSE,
                        <<Param("ctx", "string"),
                          Param("request", "mcp.CallToolRequest")>>,
                        TRUE, HandlerResults, UserBody)),
          file(requiredImports,
               FuncDecl(handlerName, FALSE, HandlerParams, TRUE,
                        <<"*mcp.CallToolResult", "string">>, UserBody)),
          file(requiredImports,
               FuncDecl(handlerName, TRUE, HandlerParams, TRUE, HandlerResults,
                        UserBody)) }

StartDirsRegenerate(cfg) ==
    {[p \in Paths(cfg) |-> IF p = ToolFilePath(cfg.Tools[1]) THEN f ELSE Missing] :
        f \in ExistingToolFiles(cfg.Tools[1]) \cup HandEditedFiles(cfg.Tools[1])}

InitRegenerate ==
    /\ SchemaIdle
    /\ ConvIdle
    /\ config \in {cfg \in Configs : Len(cfg.Tools) = 1}
    /\ dir \in StartDirsRegenerate(config)
    /\ startDir = dir
    /\ pc = "tools"
    /\ idx = 1
    /\ run = 1
    /\ writes = {}
    /\ aborts = <<>>
    /\ edits = 0
    /\ edited = [p \in Paths(config) |-> NoEdit]
    /\ last = [op |-> "none"]

SpecRegenerate == InitRegenerate /\ [][Next]_vars

\* the last step emitted a tool file over a file that was read
Regenerated ==
    /\ last.op = "tool"
    /\ last.before # Missing
    /\ ~IsNoRead(last.before)

ImportPaths(imports) == {imports[i].path : i \in DOMAIN imports}

\* C22 (as claimed): the import list of a file regenerated over an
\* existing file is the union of the imports of the existing file and the
\* three required ones, each path once, in sorted order.
C22_ImportMerging ==
    Regenerated =>
        LET new == last.content.imports
        IN  /\ ImportPaths(new) =
                  ImportPaths(extractImports(last.before))
                  \cup ImportPaths(requiredImports)
            /\ \A i, j \in DOMAIN new :
                  i < j => PathRank(new[i].path) < PathRank(new[j].path)

\* the full signature of a handler:
\* (context.Context, mcp.CallToolRequest) (*mcp.CallToolResult, error)
FullSignature(fn) ==
    /\ ~fn.recv
    /\ [i \in DOMAIN fn.params |-> fn.params[i].type]
          = <<"context.Context", "mcp.CallToolRequest">>
    /\ fn.hasResults
    /\ fn.results = HandlerResults

\* C27 (as claimed): extractHandlerImplementation never fails, and it
\* returns a body only for a function of the handler's name with the full
\* signature; over a file whose function of that name has another
\* signature, regeneration emits the default body.
C27_SignatureGatedExtraction ==
    /\ pc # "panicked"
    /\ (Regenerated /\ IsGoFile(last.before)) =>
          LET data == ToolTemplateData(last.tool)
              handlerName == data.ToolHandlerName
              matching == {i \in DOMAIN last.before.decls :
                              /\ last.before.decls[i].name = handlerName
                              /\ FullSignature(last.before.decls[i])}
          IN  matching = {} =>
                 /\ extractHandlerImplementation(last.before, handlerName).body = <<>>
                 /\ HandlerBodyOf(last.content, handlerName)
                       = FormatBody(DefaultBody(data))

(***************************************************************************)
(* Further properties of the normalizer (SpecNormalize).                   *)
(***************************************************************************)
\* the schemas a Schema holds: its composition branches, its items, its
\* properties and the schema of its additional properties
SubSchemas(s) ==
    {s.OneOf[i] : i \in DOMAIN s.OneOf}
    \cup {s.AnyOf[i] : i \in DOMAIN s.AnyOf}
    \cup {s.AllOf[i] : i \in DOMAIN s.AllOf}
    \cup {s.Not}
    \cup (IF s.Array # NilArray THEN {s.Array.Items} ELSE {})
    \cup (IF s.Object # NilObject
          THEN {s.Object.Properties[n] : n \in DOMAIN s.Object.Properties}
               \cup {s.Object.AdditionalProperties}
          ELSE {})

\* at s and at every Schema below it, each validation sub-record is there
\* exactly when Types holds a matching type
RECURSIVE ValidationsMatchTypes(_)
ValidationsMatchTypes(s) ==
    /\ s.String # NilString <=> contains(s.Types, "string")
    /\ s.Number # NilNumber
          <=> (contains(s.Types, "number") \/ contains(s.Types, "integer"))
    /\ s.Array # NilArray <=> contains(s.Types, "array")
    /\ s.Object # NilObject <=> contains(s.Types, "object")
    /\ \A sub \in SubSchemas(s) : sub # NilSchema => ValidationsMatchTypes(sub)

\* C25 (as claimed): in every Schema applySchema returns, String, Number,
\* Array and Object are present exactly when Types holds "string",
\* "number" or "integer", "array" and "object", also when "string" was put
\* into Types for a nullable schema without base type.
C25_ValidationsMatchTypes ==
    Applied => ValidationsMatchTypes(built.applied.schema)

\* the references of a source schema to the schemas below it
SourceRefs(schema) ==
    {schema.OneOf[i] : i \in DOMAIN schema.OneOf}
    \cup {schema.AnyOf[i] : i \in DOMAIN schema.AnyOf}
    \cup {schema.AllOf[i] : i \in DOMAIN schema.AllOf}
    \cup {schema.Not, schema.Items, schema.AdditionalProperties.Schema}
    \cup {schema.Properties[n] : n \in DOMAIN schema.Properties}

\* the schema holds, at some level, an entry of oneOf, anyOf or allOf
\* without reference or without value, a `not` without value, or a
\* property without reference
RECURSIVE HasNullBranch(_)
HasNullBranch(schema) ==
    \/ \E i \in DOMAIN schema.OneOf : ~HasValue(schema.OneOf[i])
    \/ \E i \in DOMAIN schema.AnyOf : ~HasValue(schema.AnyOf[i])
    \/ \E i \in DOMAIN schema.AllOf : ~HasValue(schema.AllOf[i])
    \/ schema.Not = EmptyRef
    \/ \E n \in DOMAIN schema.Properties : schema.Properties[n] = NilRef
    \/ \E r \in SourceRefs(schema) : HasValue(r) /\ HasNullBranch(r.Value)

\* applySchema has returned, a Schema or an error
Returned == built.stage \in {"applied", "lowered"}

\* C26 (as claimed): applySchema returns an error and no Schema for every
\* source schema that holds such a branch or property at any level; it
\* never drops one silently.
C26_NullBranchRejection ==
    (Returned /\ HasNullBranch(operation.schema)) =>
        /\ built.applied.err # ""
        /\ built.applied.schema = NilSchema

(***************************************************************************)
(* A further property of the JSON Schema emitter (SpecSchema).             *)
(***************************************************************************)
\* C30 (as claimed): the root "required" array holds each name at most
\* once, also when two required Args that are not deprecated share a name.
C30_NoDuplicateRequired ==
    \A k \in Succeeded :
        LET required == OutRequired(schemaOut[k])
        IN  \A i, j \in DOMAIN required : i # j => required[i] # required[j]

====
